---- MODULE Spec2Model ----
(***************************************************************************)
(* Virtual ESC/POS printer emulator: stream parser, printer state machine, *)
(* error simulator and the connection/server layer                         *)
(* (src/tests/integration_tests/emulator).                                 *)
(***************************************************************************)
EXTENDS Integers, Sequences, FiniteSets, TLC

----------------------------------------------------------------------------
(* Protocol bytes (command_parser.py:15-18 and the ord(..) selectors)      *)

ESC == 27
GS == 29
LF == 10
CR == 13

\* Python's None
None == [type |-> "None"]

\* bytes(buffer[n:]) / buffer[:n]
DropBytes(b, n) == IF n >= Len(b) THEN <<>> ELSE SubSeq(b, n + 1, Len(b))
TakeBytes(b, n) == IF n >= Len(b) THEN b ELSE SubSeq(b, 1, n)

\* One step of the parser: the command (or None), the buffer and the codec left
\* behind.
ParseResult(cmd, buf, enc) == [cmd |-> cmd, buf |-> buf, enc |-> enc]

\* EscposCommandParser._parse_simple_command
parse_simple_command(b, enc, command_type, length) ==
    IF Len(b) < length
    THEN ParseResult(None, b, enc)
    ELSE ParseResult([type |-> command_type,
                      raw_data |-> TakeBytes(b, length),
                      parameters |-> [kind |-> "none"]],
                     DropBytes(b, length), enc)

\* The ESC/GS "x n" commands that share one shape:
\* _parse_print_mode_command, _parse_underline_command,
\* _parse_justification_command, _parse_feed_command, _parse_cut_command,
\* _parse_hri_position_command, _parse_hri_font_command,
\* _parse_barcode_width_command, _parse_barcode_height_command
parse_one_arg_command(b, enc, command_type) ==
    IF Len(b) < 3
    THEN ParseResult(None, b, enc)
    ELSE ParseResult([type |-> command_type,
                      raw_data |-> TakeBytes(b, 3),
                      parameters |-> [kind |-> "n", n |-> b[3]]],
                     DropBytes(b, 3), enc)

\* codepages.get(n, 'cp437') in _parse_codepage_command
codepages(n) ==
    CASE n = 0 -> "cp437" [] n = 1 -> "cp932" [] n = 2 -> "cp850"
      [] n = 3 -> "cp860" [] n = 4 -> "cp863" [] n = 5 -> "cp865"
      [] n = 16 -> "cp1252" [] n = 17 -> "cp866" [] n = 18 -> "cp852"
      [] n = 19 -> "cp858" [] OTHER -> "cp437"

\* variant of _parse_codepage_command that leaves the active encoding alone
parse_codepage_command_keeps(b, enc) ==
    IF Len(b) < 3
    THEN ParseResult(None, b, enc)
    ELSE ParseResult([type |-> "codepage",
                      raw_data |-> TakeBytes(b, 3),
                      parameters |-> [kind |-> "codepage", n |-> b[3],
                                      encoding |-> codepages(b[3])]],
                     DropBytes(b, 3), enc)

\* EscposCommandParser._parse_codepage_command
parse_codepage_command(b, enc) ==
    IF Len(b) < 3
    THEN ParseResult(None, b, enc)
    ELSE ParseResult([type |-> "codepage",
                      raw_data |-> TakeBytes(b, 3),
                      parameters |-> [kind |-> "codepage", n |-> b[3],
                                      encoding |-> codepages(b[3])]],
                     DropBytes(b, 3), codepages(b[3]))

\* EscposCommandParser._parse_barcode_command: GS k m k d1..dk
parse_barcode_command(b, enc) ==
    IF Len(b) < 4
    THEN ParseResult(None, b, enc)
    ELSE LET k == b[4]
             total_length == 4 + k
         IN  IF Len(b) < total_length
             THEN ParseResult(None, b, enc)
             ELSE ParseResult([type |-> "barcode",
                               raw_data |-> TakeBytes(b, total_length),
                               parameters |-> [kind |-> "barcode", n |-> b[3],
                                               data |-> SubSeq(b, 5, 4 + k)]],
                              DropBytes(b, total_length), enc)

\* EscposCommandParser._parse_image_command: the length is read from
\* buffer[2] and buffer[3] and the command is taken to be 5 + length bytes
parse_image_command(b, enc) ==
    IF Len(b) < 6
    THEN ParseResult(None, b, enc)
    ELSE LET pL == b[3]
             pH == b[4]
             m == b[5]
             data_length == pL + (pH * 256)
             total_length == 5 + data_length
         IN  IF Len(b) < total_length
             THEN ParseResult(None, b, enc)
             ELSE ParseResult([type |-> "image",
                               raw_data |-> TakeBytes(b, total_length),
                               parameters |-> [kind |-> "image", n |-> m,
                                               data_length |-> data_length,
                                               data |-> SubSeq(b, 6, 5 + data_length)]],
                              DropBytes(b, total_length), enc)

\* variant of _parse_esc_command that drops only the ESC byte of an unknown
\* command
parse_esc_command_drops_one(b, enc) ==
    IF Len(b) < 2 THEN ParseResult(None, b, enc)
    ELSE CASE b[2] = 64  -> parse_simple_command(b, enc, "initialize", 2)
           [] b[2] = 33  -> parse_one_arg_command(b, enc, "print_mode")
           [] b[2] = 45  -> parse_one_arg_command(b, enc, "underline")
           [] b[2] = 97  -> parse_one_arg_command(b, enc, "alignment")
           [] b[2] = 100 -> parse_one_arg_command(b, enc, "feed")
           [] b[2] = 105 -> parse_simple_command(b, enc, "cut_partial", 2)
           [] b[2] = 109 -> parse_simple_command(b, enc, "cut_full", 2)
           [] b[2] = 116 -> parse_codepage_command(b, enc)
           [] OTHER      -> ParseResult(None, DropBytes(b, 1), enc)

\* EscposCommandParser._parse_esc_command
parse_esc_command(b, enc) ==
    IF Len(b) < 2 THEN ParseResult(None, b, enc)
    ELSE CASE b[2] = 64  -> parse_simple_command(b, enc, "initialize", 2)
           [] b[2] = 33  -> parse_one_arg_command(b, enc, "print_mode")
           [] b[2] = 45  -> parse_one_arg_command(b, enc, "underline")
           [] b[2] = 97  -> parse_one_arg_command(b, enc, "alignment")
           [] b[2] = 100 -> parse_one_arg_command(b, enc, "feed")
           [] b[2] = 105 -> parse_simple_command(b, enc, "cut_partial", 2)
           [] b[2] = 109 -> parse_simple_command(b, enc, "cut_full", 2)
           [] b[2] = 116 -> parse_codepage_command(b, enc)
           [] OTHER      -> ParseResult(None, DropBytes(b, 2), enc)

\* EscposCommandParser._parse_gs_command
parse_gs_command(b, enc) ==
    IF Len(b) < 2 THEN ParseResult(None, b, enc)
    ELSE CASE b[2] = 86  -> parse_one_arg_command(b, enc, "cut")
           [] b[2] = 107 -> parse_barcode_command(b, enc)
           [] b[2] = 40  -> parse_image_command(b, enc)
           [] b[2] = 72  -> parse_one_arg_command(b, enc, "hri_position")
           [] b[2] = 102 -> parse_one_arg_command(b, enc, "hri_font")
           [] b[2] = 119 -> parse_one_arg_command(b, enc, "barcode_width")
           [] b[2] = 104 -> parse_one_arg_command(b, enc, "barcode_height")
           [] OTHER      -> ParseResult(None, DropBytes(b, 2), enc)

IsControl(byte) == byte \in {ESC, GS, LF, CR}

\* The for/else scan of _parse_text_data: index (0-based) of the first control
\* byte, or len(buffer)
RECURSIVE text_end_pos(_, _)
text_end_pos(b, i) ==
    IF i > Len(b) THEN Len(b)
    ELSE IF IsControl(b[i]) THEN i - 1
    ELSE text_end_pos(b, i + 1)

\* bytes.decode('cp932'): a lead byte needs a trail byte after it
RECURSIVE cp932_fails(_, _)
cp932_fails(data, i) ==
    IF i > Len(data) THEN FALSE
    ELSE IF data[i] \in (129..159) \cup (224..252)
    THEN \/ i = Len(data)
         \/ data[i + 1] \notin (64..126) \cup (128..252)
         \/ cp932_fails(data, i + 2)
    ELSE cp932_fails(data, i + 1)

\* bytes.decode(encoding) raising UnicodeDecodeError: cp1252 leaves five bytes
\* undefined, cp932 is a double-byte code page; the other code pages of the
\* table map all 256 bytes
Undecodable(enc, data) ==
    \/ /\ enc = "cp1252"
       /\ \E i \in 1..Len(data) : data[i] \in {129, 141, 143, 144, 157}
    \/ /\ enc = "cp932"
       /\ cp932_fails(data, 1)

\* variant of _parse_text_data without the except branch: the text is
\* decoded with the selected encoding whatever its bytes
parse_text_data_no_fallback(b, enc) ==
    LET end_pos == text_end_pos(b, 1)
    IN  IF end_pos = 0 THEN ParseResult(None, b, enc)
        ELSE ParseResult([type |-> "text",
                          raw_data |-> TakeBytes(b, end_pos),
                          parameters |-> [kind |-> "text", codec |-> enc]],
                         DropBytes(b, end_pos), enc)

\* EscposCommandParser._parse_text_data
parse_text_data(b, enc) ==
    LET end_pos == text_end_pos(b, 1)
    IN  IF end_pos = 0 THEN ParseResult(None, b, enc)
        ELSE ParseResult([type |-> "text",
                          raw_data |-> TakeBytes(b, end_pos),
                          parameters |->
                              [kind |-> "text",
                               codec |-> IF Undecodable(enc, TakeBytes(b, end_pos))
                                         THEN "latin-1" ELSE enc]],
                         DropBytes(b, end_pos), enc)

\* EscposCommandParser._parse_single_command
parse_single_command(b, enc) ==
    IF Len(b) < 1 THEN ParseResult(None, b, enc)
    ELSE CASE b[1] = ESC -> parse_esc_command(b, enc)
           [] b[1] = GS  -> parse_gs_command(b, enc)
           [] b[1] = LF  -> parse_simple_command(b, enc, "feed", 1)
           [] b[1] = CR  -> parse_simple_command(b, enc, "carriage_return", 1)
           [] OTHER      -> parse_text_data(b, enc)

\* The while loop of parse_command: every complete command at the front of the
\* buffer is decoded and collected
RECURSIVE parse_loop(_, _, _)
parse_loop(b, enc, commands) ==
    IF b = <<>> THEN [commands |-> commands, buf |-> b, enc |-> enc]
    ELSE LET r == parse_single_command(b, enc)
         IN  IF r.cmd # None
             THEN parse_loop(r.buf, r.enc, Append(commands, r.cmd))
             ELSE [commands |-> commands, buf |-> r.buf, enc |-> r.enc]

\* What parse_command hands back from the collected list:
\* "return commands[0] if commands else None"
returned_commands(commands) ==
    IF commands # <<>> THEN <<commands[1]>> ELSE <<>>

\* EscposCommandParser.parse_command on a parser p = [buffer, current_encoding]:
\* the parser afterwards, the commands decoded and the commands returned
parse_command(p, data) ==
    LET r == parse_loop(p.buffer \o data, p.current_encoding, <<>>)
    IN  [parser |-> [buffer |-> r.buf, current_encoding |-> r.enc],
         decoded |-> r.commands,
         returned |-> returned_commands(r.commands)]

\* EscposCommandParser.__init__
NewParser == [buffer |-> <<>>, current_encoding |-> "cp437"]

----------------------------------------------------------------------------
(* PrinterState (printer_state.py)                                         *)

\* Time is counted in milliseconds of the event loop clock and every stored
\* time is kept relative to the current instant: loop.time() reads 0, and the
\* passing of a millisecond moves every stored time one millisecond back.
Now == 0
\* (now - self._last_text_time) < 0.005
CoalesceWindow == 5
\* asyncio.sleep(0.002)
ProcessingDelay == 2

\* self._last_text_time = None (a stored time is never in the future)
NoTime == 1

\* PrinterState.__init__
NewPrinterState ==
    [online |-> TRUE, paper_status |-> "loaded", buffer |-> <<>>,
     print_history |-> <<>>, command_log |-> <<>>, last_text_time |-> NoTime]

\* Command(command_type, raw_data, parameters); the timestamp is not modelled
Command(command_type, raw_data, parameters) ==
    [command_type |-> command_type, raw_data |-> raw_data,
     parameters |-> parameters]

\* command.parameters.get("__force_new__") / .get("__mirrored__")
force_new(command) ==
    "force_new" \in DOMAIN command.parameters /\ command.parameters.force_new
mirrored(command) ==
    "mirrored" \in DOMAIN command.parameters /\ command.parameters.mirrored

\* b"".join(self.buffer)
RECURSIVE JoinBytes(_)
JoinBytes(chunks) ==
    IF chunks = <<>> THEN <<>> ELSE Head(chunks) \o JoinBytes(Tail(chunks))

\* variant of _add_print_job that records nothing
add_print_job_lost(print_history, content_type, data, parameters) ==
    print_history

\* variant of _add_print_job that records the job without its data
add_print_job_empty(print_history, content_type, data, parameters) ==
    Append(print_history,
           [content_type |-> content_type, data |-> <<>>,
            parameters |-> parameters])

\* PrinterState._add_print_job
add_print_job(print_history, content_type, data, parameters) ==
    Append(print_history,
           [content_type |-> content_type, data |-> data,
            parameters |-> parameters])

\* variant of the text branch whose merge leaves the last PrintJob as it was
update_state_text_stale_job(ps, command, t) ==
    LET recent_text == ps.last_text_time # NoTime
                       /\ (t - ps.last_text_time) < CoalesceWindow
        n == Len(ps.command_log)
        last_is_text == n > 0 /\ ps.command_log[n].command_type = "text"
    IN  IF mirrored(command) /\ recent_text /\ last_is_text
        THEN [ps EXCEPT !.last_text_time = t]
        ELSE IF recent_text /\ ~force_new(command) /\ last_is_text
        THEN [ps EXCEPT
                !.command_log[n].raw_data = @ \o command.raw_data,
                !.last_text_time = t]
        ELSE [ps EXCEPT
                !.command_log = Append(@, command),
                !.buffer = Append(@, command.raw_data),
                !.print_history =
                    add_print_job(@, "text", command.raw_data,
                                  command.parameters),
                !.last_text_time = t]

\* the text branch of PrinterState.update_state
update_state_text(ps, command, t) ==
    LET recent_text == ps.last_text_time # NoTime
                       /\ (t - ps.last_text_time) < CoalesceWindow
        n == Len(ps.command_log)
        h == Len(ps.print_history)
        last_is_text == n > 0 /\ ps.command_log[n].command_type = "text"
    IN  IF mirrored(command) /\ recent_text /\ last_is_text
        THEN [ps EXCEPT !.last_text_time = t]
        ELSE IF recent_text /\ ~force_new(command) /\ last_is_text
        THEN [ps EXCEPT
                !.command_log[n].raw_data = @ \o command.raw_data,
                !.print_history =
                    IF h > 0 /\ ps.print_history[h].content_type = "text"
                    THEN [ps.print_history EXCEPT
                            ![h].data = @ \o command.raw_data]
                    ELSE ps.print_history,
                !.last_text_time = t]
        ELSE [ps EXCEPT
                !.command_log = Append(@, command),
                !.buffer = Append(@, command.raw_data),
                !.print_history =
                    add_print_job(@, "text", command.raw_data,
                                  command.parameters),
                !.last_text_time = t]

\* variant of update_state in which a cut brings the printer back online
update_state_revives(ps, command, t) ==
    IF command.command_type = "text"
    THEN update_state_text(ps, command, t)
    ELSE LET logged == [ps EXCEPT !.command_log = Append(@, command)]
         IN  CASE command.command_type = "cut" ->
                    IF ps.buffer # <<>>
                    THEN [logged EXCEPT
                            !.print_history =
                                add_print_job(@, "text", JoinBytes(ps.buffer),
                                              command.parameters),
                            !.buffer = <<>>,
                            !.online = TRUE]
                    ELSE logged
               [] command.command_type \in {"qr", "image", "barcode"} ->
                    [logged EXCEPT
                       !.print_history =
                           add_print_job(@, command.command_type,
                                         command.raw_data, command.parameters)]
               [] OTHER -> logged

\* variant of update_state that does not log a command of a type it does
\* not know
update_state_drops_unknown(ps, command, t) ==
    IF command.command_type = "text"
    THEN update_state_text(ps, command, t)
    ELSE LET logged == [ps EXCEPT !.command_log = Append(@, command)]
         IN  CASE command.command_type = "cut" ->
                    IF ps.buffer # <<>>
                    THEN [logged EXCEPT
                            !.print_history =
                                add_print_job(@, "text", JoinBytes(ps.buffer),
                                              command.parameters),
                            !.buffer = <<>>]
                    ELSE logged
               [] command.command_type \in {"qr", "image", "barcode"} ->
                    [logged EXCEPT
                       !.print_history =
                           add_print_job(@, command.command_type,
                                         command.raw_data, command.parameters)]
               [] command.command_type = "feed" -> logged
               [] OTHER -> ps

\* PrinterState.update_state at loop time t
update_state(ps, command, t) ==
    IF command.command_type = "text"
    THEN update_state_text(ps, command, t)
    ELSE LET logged == [ps EXCEPT !.command_log = Append(@, command)]
         IN  CASE command.command_type = "cut" ->
                    IF ps.buffer # <<>>
                    THEN [logged EXCEPT
                            !.print_history =
                                add_print_job(@, "text", JoinBytes(ps.buffer),
                                              command.parameters),
                            !.buffer = <<>>]
                    ELSE logged
               [] command.command_type \in {"qr", "image", "barcode"} ->
                    [logged EXCEPT
                       !.print_history =
                           add_print_job(@, command.command_type,
                                         command.raw_data, command.parameters)]
               [] OTHER -> logged

\* variant of simulate_error whose reset also drops the log and the history
state_simulate_error_wipes(ps, error_type) ==
    CASE error_type = "offline"   -> [ps EXCEPT !.online = FALSE]
      [] error_type = "paper_out" -> [ps EXCEPT !.paper_status = "out"]
      [] error_type = "paper_jam" -> [ps EXCEPT !.paper_status = "jammed"]
      [] error_type = "reset"     -> [ps EXCEPT !.online = TRUE,
                                                !.paper_status = "loaded",
                                                !.buffer = <<>>,
                                                !.command_log = <<>>,
                                                !.print_history = <<>>]
      [] OTHER -> ps

\* PrinterState.simulate_error
state_simulate_error(ps, error_type) ==
    CASE error_type = "offline"   -> [ps EXCEPT !.online = FALSE]
      [] error_type = "paper_out" -> [ps EXCEPT !.paper_status = "out"]
      [] error_type = "paper_jam" -> [ps EXCEPT !.paper_status = "jammed"]
      [] error_type = "reset"     -> [ps EXCEPT !.online = TRUE,
                                                !.paper_status = "loaded",
                                                !.buffer = <<>>]
      [] OTHER -> ps

\* variant of clear_history that leaves the pending text buffer
clear_history_keeps_buffer(ps) ==
    [ps EXCEPT !.print_history = <<>>, !.command_log = <<>>,
               !.last_text_time = NoTime]

\* PrinterState.clear_history
clear_history(ps) ==
    [ps EXCEPT !.print_history = <<>>, !.command_log = <<>>,
               !.buffer = <<>>, !.last_text_time = NoTime]

\* PrinterState.start_new_text_block
start_new_text_block(ps) == [ps EXCEPT !.last_text_time = NoTime]

----------------------------------------------------------------------------
(* ErrorCondition and ErrorSimulator (error_simulator.py)                  *)

\* ErrorCondition; durations and time thresholds are in milliseconds,
\* a probability in tenths; duration None is 0 (both are falsy in
\* should_recover)
ErrorCondition(error_type, trigger_type, trigger_value, duration, recovery_type, recovery_condition) ==
    [error_type |-> error_type, trigger_type |-> trigger_type,
     trigger_value |-> trigger_value, duration |-> duration,
     recovery_type |-> recovery_type,
     recovery_condition |-> recovery_condition]

\* variant of should_trigger that fires one command late
should_trigger_late(condition, command_count, elapsed_time, draw) ==
    CASE condition.trigger_type = "immediate" -> TRUE
      [] condition.trigger_type = "after_commands" ->
            command_count > condition.trigger_value
      [] condition.trigger_type = "after_time" ->
            elapsed_time >= condition.trigger_value
      [] condition.trigger_type = "random" -> draw < condition.trigger_value
      [] OTHER -> FALSE

\* ErrorCondition.should_trigger; draw is the value of random.random()
should_trigger(condition, command_count, elapsed_time, draw) ==
    CASE condition.trigger_type = "immediate" -> TRUE
      [] condition.trigger_type = "after_commands" ->
            command_count >= condition.trigger_value
      [] condition.trigger_type = "after_time" ->
            elapsed_time >= condition.trigger_value
      [] condition.trigger_type = "random" -> draw < condition.trigger_value
      [] OTHER -> FALSE

\* The recovery callbacks of the module: create_intermittent_error's
\* recovery_condition compares elapsed_since_error with the duration
recovery_condition_holds(condition, elapsed_since_error) ==
    CASE condition.recovery_condition = "elapsed_ge_duration" ->
            elapsed_since_error >= condition.duration
      [] condition.recovery_condition = "always" -> TRUE
      [] OTHER -> FALSE

\* ErrorCondition.should_recover
should_recover(condition, elapsed_since_error) ==
    IF condition.recovery_type = "auto" /\ condition.duration # 0
    THEN elapsed_since_error >= condition.duration
    ELSE IF condition.recovery_type = "conditional"
            /\ condition.recovery_condition # "none"
    THEN recovery_condition_holds(condition, elapsed_since_error)
    ELSE FALSE

\* ErrorSimulator.__init__ at loop time t
NewErrorSimulator(t) ==
    [active_errors |-> <<>>, error_history |-> <<>>, command_count |-> 0,
     start_time |-> t]

\* error_type in self.active_errors
IsRegistered(active_errors, error_type) ==
    \E i \in 1..Len(active_errors) : active_errors[i].error_type = error_type

\* self.active_errors[error_type]
Registered(active_errors, error_type) ==
    active_errors[CHOOSE i \in 1..Len(active_errors) :
                      active_errors[i].error_type = error_type]

\* del self.active_errors[error_type]
RECURSIVE Unregister(_, _)
Unregister(active_errors, error_type) ==
    IF active_errors = <<>> THEN <<>>
    ELSE IF Head(active_errors).error_type = error_type
    THEN Unregister(Tail(active_errors), error_type)
    ELSE <<Head(active_errors)>> \o Unregister(Tail(active_errors), error_type)

\* ErrorSimulator.add_error_condition: a dict keeps the position of a key
\* that is already present
add_error_condition(sim, condition) ==
    IF IsRegistered(sim.active_errors, condition.error_type)
    THEN [sim EXCEPT !.active_errors =
            [i \in 1..Len(@) |->
                IF @[i].error_type = condition.error_type
                THEN condition ELSE @[i]]]
    ELSE [sim EXCEPT !.active_errors = Append(@, condition)]

\* variant of remove_error_condition that empties the dict
remove_error_condition_all(sim, error_type) ==
    [sim EXCEPT !.active_errors = <<>>]

\* ErrorSimulator.remove_error_condition
remove_error_condition(sim, error_type) ==
    [sim EXCEPT !.active_errors = Unregister(@, error_type)]

\* ErrorSimulator._activate_error
activate_error(sim, condition) ==
    [sim EXCEPT !.error_history =
        Append(@, [timestamp |-> Now, error_type |-> condition.error_type,
                   action |-> "activated"])]

\* variant of _recover_error that records the recovery and keeps the condition
recover_error_keeps(sim, error_type) ==
    IF IsRegistered(sim.active_errors, error_type)
    THEN [sim EXCEPT
            !.error_history =
                Append(@, [timestamp |-> Now, error_type |-> error_type,
                           action |-> "recovered"])]
    ELSE sim

\* ErrorSimulator._recover_error
recover_error(sim, error_type) ==
    IF IsRegistered(sim.active_errors, error_type)
    THEN LET condition == Registered(sim.active_errors, error_type)
         IN  [sim EXCEPT
                !.error_history =
                    Append(@, [timestamp |-> Now, error_type |-> error_type,
                               action |-> "recovered"]),
                !.active_errors =
                    IF condition.recovery_type \in {"auto", "conditional"}
                    THEN Unregister(@, error_type) ELSE @]
    ELSE sim

\* variant of trigger_error that registers the temporary condition
trigger_error_registers(sim, error_type) ==
    IF IsRegistered(sim.active_errors, error_type)
    THEN activate_error(sim, Registered(sim.active_errors, error_type))
    ELSE LET temp_condition == ErrorCondition(error_type, "immediate", 0, 0,
                                              "manual", "none")
         IN  activate_error(add_error_condition(sim, temp_condition),
                            temp_condition)

\* ErrorSimulator.trigger_error
trigger_error(sim, error_type) ==
    IF IsRegistered(sim.active_errors, error_type)
    THEN activate_error(sim, Registered(sim.active_errors, error_type))
    ELSE activate_error(sim, ErrorCondition(error_type, "immediate", 0, 0,
                                            "manual", "none"))

\* first loop of process_command over list(self.active_errors.items())
RECURSIVE trigger_loop(_, _, _, _, _)
trigger_loop(sim, items, elapsed_time, draw, first_error) ==
    IF items = <<>> THEN [sim |-> sim, first_error |-> first_error]
    ELSE IF should_trigger(Head(items), sim.command_count, elapsed_time, draw)
    THEN trigger_loop(activate_error(sim, Head(items)), Tail(items),
                      elapsed_time, draw,
                      IF first_error = "None" THEN Head(items).error_type
                      ELSE first_error)
    ELSE trigger_loop(sim, Tail(items), elapsed_time, draw, first_error)

\* second loop of process_command
RECURSIVE recovery_loop(_, _, _)
recovery_loop(sim, items, elapsed_since_error) ==
    IF items = <<>> THEN sim
    ELSE IF should_recover(Head(items), elapsed_since_error)
    THEN recovery_loop(recover_error(sim, Head(items).error_type),
                       Tail(items), elapsed_since_error)
    ELSE recovery_loop(sim, Tail(items), elapsed_since_error)

\* ErrorSimulator.clear_all_errors
clear_all_errors(sim) == [sim EXCEPT !.active_errors = <<>>]

\* The keyword arguments of a process_command call: none, or
\* elapsed_since_error = value
NoKwargs == [given |-> FALSE, elapsed_since_error |-> 0]
ElapsedKwarg(value) == [given |-> TRUE, elapsed_since_error |-> value]

\* variant of process_command that stops looking for triggers at the first
\* condition that fires
process_command_first_only(sim, command_type, t, draw, kwargs) ==
    LET counted == [sim EXCEPT !.command_count = @ + 1]
        items == counted.active_errors
        firing == { i \in 1..Len(items) :
                      should_trigger(items[i], counted.command_count,
                                     t - sim.start_time, draw) }
        upto == IF firing = {} THEN Len(items)
                ELSE CHOOSE i \in firing : \A j \in firing : i <= j
        fired == trigger_loop(counted, SubSeq(items, 1, upto),
                              t - sim.start_time, draw, "None")
        raised == kwargs.given /\ fired.sim.active_errors # <<>>
    IN  [sim |-> IF raised THEN fired.sim
                 ELSE recovery_loop(fired.sim, fired.sim.active_errors,
                                    kwargs.elapsed_since_error),
         first_error |-> IF raised THEN "TypeError" ELSE fired.first_error,
         raised |-> raised]

\* ErrorSimulator.process_command at loop time t.  The recovery loop calls
\* should_recover(elapsed_since_error=kwargs.get('elapsed_since_error', 0),
\* command_type=command_type, **kwargs): when the caller passed
\* elapsed_since_error the keyword is given twice and the first such call
\* raises TypeError, after the count and the activations were recorded.
process_command(sim, command_type, t, draw, kwargs) ==
    LET counted == [sim EXCEPT !.command_count = @ + 1]
        fired == trigger_loop(counted, counted.active_errors,
                              t - sim.start_time, draw, "None")
        raised == kwargs.given /\ fired.sim.active_errors # <<>>
    IN  [sim |-> IF raised THEN fired.sim
                 ELSE recovery_loop(fired.sim, fired.sim.active_errors,
                                    kwargs.elapsed_since_error),
         first_error |-> IF raised THEN "TypeError" ELSE fired.first_error,
         raised |-> raised]

\* variant of reset that keeps the command counter
simulator_reset_keeps_count(sim, t) ==
    [NewErrorSimulator(t) EXCEPT !.command_count = sim.command_count]

\* ErrorSimulator.reset at loop time t
simulator_reset(sim, t) == NewErrorSimulator(t)

----------------------------------------------------------------------------
(* Bounds of the model                                                     *)

\* connections that may be opened
NumConns == 2
\* chunks of bytes the clients send in all
MaxSends == 2
\* calls of the operator surface while connections are served
MaxOps == 1
\* calls made on a PrinterState alone
MaxUpdates == 4
\* calls made on an ErrorSimulator alone
MaxCalls == 4
\* concurrent update_state_sync callers
NumCallers == 1
\* payload bytes of the barcode and image encodings fed to the parser
MaxPayload == 2
\* concurrent update_state_sync callers that send text only
NumSyncCallers == 2
\* concurrent tasks that call the operations of the shared state
NumTasks == 2
\* operations the tasks call in all
MaxTaskCalls == 2

Conns == 1..NumConns
Callers == 1..NumCallers
\* no task holds the event loop
Idle == 0

\* The example scenario: ESC @, ESC ! 8, "Hi", LF, GS V 0x41
ExampleStream == <<27, 64, 27, 33, 8, 72, 105, 10, 29, 86, 65>>
\* Byte chunks a client may send in one write; one read(1024) returns one
\* chunk: "B" LF (a text and a feed command) and GS V 0x41 (a cut)
Chunks ==
    { <<66, 10>>, <<29, 86, 65>> }

\* Conditions the harness registers (create_offline_error and
\* create_paper_out_error with after_commands thresholds)
ConditionMenu ==
    { ErrorCondition("offline", "after_commands", 2, 0, "manual", "none"),
      ErrorCondition("paper_out", "after_commands", 1, 0, "manual", "none") }

\* Conditions registered on an ErrorSimulator alone
SimConditionMenu ==
    { ErrorCondition("offline", "after_commands", n, 0, "manual", "none") :
        n \in 1..3 }
    \cup { ErrorCondition("paper_out", "after_commands", 2, 0, "manual", "none"),
           ErrorCondition("paper_jam", "immediate", 0, 0, "manual", "none") }

\* error types of simulate_error / trigger_error / remove_error_condition calls
SimulatedErrors == {"offline", "paper_out"}

\* command types passed to process_command
CommandTypes == {"text", "cut"}

\* a bytes argument of a call (the argument may also be None)
Bytes(value) == [type |-> "bytes", value |-> value]

\* data = data or b"" in update_state_sync
or_empty(data) == IF data = None THEN <<>> ELSE data.value

\* update_state_sync(command_type, data, {}) calls of the harness
SyncCalls == { <<"text", Bytes(<<67>>)>>, <<"cut", Bytes(<<>>)>> }

\* values of random.random(), in tenths
Draws == {0}

VARIABLES
    running,          \* the task that holds the event loop, or Idle
    command_parser,   \* VirtualPrinterServer.command_parser (shared)
    printer_state,    \* VirtualPrinterServer.printer_state (shared)
    error_simulator,  \* VirtualPrinterServer.error_simulator (shared)
    clients,          \* VirtualPrinterServer.clients
    server,           \* VirtualPrinterServer: _running, the listener, stop()
    conn,             \* per connection: position, command in hand, wake time
    sync,             \* per update_state_sync caller: position, command, wake time
    sends,            \* chunks sent so far
    ops,              \* harness calls so far
    stats,            \* history: per connection, commands decoded and not yet passed on
    seg,              \* history: text commands since the last flush of the buffer
    flushed,          \* history: the segment closed by the last cut
    feed_todo,        \* parser harness: chunks still to feed
    feed_done,        \* parser harness: chunks fed
    feed_results      \* parser harness: result of each parse_command call

vars == <<running, command_parser, printer_state, error_simulator,
          clients, server, conn, sync, sends, ops, stats, seg, flushed,
          feed_todo, feed_done, feed_results>>

feed_vars == <<feed_todo, feed_done, feed_results>>
conn_vars == <<clients, server, conn, sends, stats>>

\* ClientConnection.__init__ sets _running (field running)
NewConn ==
    [pc |-> "new", running |-> TRUE, command |-> None, wake |-> Now,
     activated |-> {}]
\* The server after start(): _running set, the listener open, stop() not
\* called
NewServer == [running |-> TRUE, listening |-> TRUE, stop |-> "none"]
NewSync == [pc |-> "idle", command |-> None, wake |-> Now]
NewSeg == [texts |-> 0, new |-> 0, jobs |-> 0, payload |-> <<>>]
NoFlush == [texts |-> 0, new |-> 0, jobs |-> 0, payload |-> <<>>,
            cut_jobs |-> <<>>, buffer_before |-> <<>>, buffer_after |-> <<>>]

\* VirtualPrinterServer.__init__, no connection yet
Init ==
    /\ running = Idle
    /\ command_parser = NewParser
    /\ printer_state = NewPrinterState
    /\ error_simulator = NewErrorSimulator(Now)
    /\ clients = {}
    /\ server = NewServer
    /\ conn = [c \in Conns |-> NewConn]
    /\ sync = [k \in Callers |-> NewSync]
    /\ sends = 0
    /\ ops = 0
    /\ stats = [c \in Conns |-> [undelivered |-> 0, in_cycle |-> 0]]
    /\ seg = NewSeg
    /\ flushed = NoFlush
    /\ feed_todo = <<>>
    /\ feed_done = <<>>
    /\ feed_results = <<>>

\* variant in which acquiring the state lock suspends the task
Suspends_at_lock(position) ==
    position \in {"read", "sleep", "rejected", "closed", "update"}

\* The await points of a connection task that give the loop to another task:
\* reader.read (virtual_printer.py:39) and asyncio.sleep (line 78).  Acquiring
\* an asyncio.Lock that nobody holds returns without suspending, and no lock
\* is held across a suspension, so the awaits of process_command and
\* update_state (lines 74-75) keep the loop.
Suspends(position) == position \in {"read", "sleep", "rejected", "closed"}

\* the task keeps the loop until it reaches a suspending await
LoopAfter(c, position) == IF Suspends(position) THEN Idle ELSE c

\* History of the text segment: the effect of one update_state call
SegAfter(ps, ps2, command) ==
    IF command.command_type = "text"
    THEN [texts |-> seg.texts + 1,
          new |-> seg.new + (Len(ps2.command_log) - Len(ps.command_log)),
          jobs |-> seg.jobs + (Len(ps2.print_history) - Len(ps.print_history)),
          payload |-> seg.payload \o command.raw_data]
    ELSE IF command.command_type = "cut" THEN NewSeg
    ELSE seg

FlushedAfter(ps, ps2, command) ==
    IF command.command_type = "cut"
    THEN [texts |-> seg.texts, new |-> seg.new,
          jobs |-> seg.jobs + (Len(ps2.print_history) - Len(ps.print_history)),
          payload |-> seg.payload,
          cut_jobs |-> SubSeq(ps2.print_history, Len(ps.print_history) + 1,
                              Len(ps2.print_history)),
          buffer_before |-> ps.buffer,
          buffer_after |-> ps2.buffer]
    ELSE flushed

\* variant of _handle_connection without the offline check
RejectsConnection_never(sim) == FALSE

\* VirtualPrinterServer._handle_connection: 'offline' in get_active_errors()
RejectsConnection(sim) == IsRegistered(sim.active_errors, "offline")

\* VirtualPrinterServer._handle_connection up to the first read
Accept(c) ==
    /\ running = Idle
    /\ conn[c].pc = "new"
    /\ server.listening
    /\ \A d \in Conns : d < c => conn[d].pc # "new"
    /\ IF RejectsConnection(error_simulator)
       THEN /\ conn' = [conn EXCEPT ![c].pc = "rejected"]
            /\ UNCHANGED clients
       ELSE /\ conn' = [conn EXCEPT ![c].pc = "read"]
            /\ clients' = clients \cup {c}
    /\ UNCHANGED <<running, command_parser, printer_state, error_simulator,
                   server, sync, sends, ops, stats, seg, flushed>>
    /\ UNCHANGED feed_vars

\* The command (if any) parse_command returned is taken in hand: the body of
\* "while command:" starts.  Else _process_data returns to the test of
\* "while self._running:" (virtual_printer.py:37): the task goes back to
\* reader.read, or, after disconnect(), leaves the loop, closes the writer
\* and is removed from the clients (lines 53-54 and 192-195)
TakeCommand(c, r) ==
    /\ command_parser' = r.parser
    /\ stats' = [stats EXCEPT ![c].undelivered = @ + Len(r.decoded)]
    /\ IF r.returned # <<>>
       THEN /\ conn' = [conn EXCEPT ![c].pc = "sim",
                                    ![c].command = r.returned[1]]
            /\ running' = LoopAfter(c, "sim")
            /\ UNCHANGED clients
       ELSE IF conn[c].running
       THEN /\ conn' = [conn EXCEPT ![c].pc = "read", ![c].command = None]
            /\ running' = LoopAfter(c, "read")
            /\ UNCHANGED clients
       ELSE /\ conn' = [conn EXCEPT ![c].pc = "closed", ![c].command = None]
            /\ running' = LoopAfter(c, "closed")
            /\ clients' = clients \ {c}

\* ClientConnection.handle_client: reader.read returns a chunk, and
\* _process_data parses it
Receive(c, data) ==
    /\ running = Idle
    /\ conn[c].pc = "read"
    /\ sends < MaxSends
    /\ sends' = sends + 1
    /\ TakeCommand(c, parse_command(command_parser, data))
    /\ UNCHANGED <<printer_state, error_simulator, server, sync, ops, seg,
                   flushed>>
    /\ UNCHANGED feed_vars

\* _process_data: await self.error_simulator.process_command(command['type'])
SimulatorStep(c) ==
    /\ running = c
    /\ conn[c].pc = "sim"
    /\ \E draw \in Draws :
         LET r == process_command(error_simulator, conn[c].command.type, Now,
                                  draw, NoKwargs)
             added == SubSeq(r.sim.error_history,
                             Len(error_simulator.error_history) + 1,
                             Len(r.sim.error_history))
         IN  /\ error_simulator' = r.sim
             /\ conn' = [conn EXCEPT
                           ![c].pc = "update",
                           ![c].activated =
                               {added[i].error_type : i \in
                                  {j \in 1..Len(added) :
                                     added[j].action = "activated"}}]
    /\ running' = LoopAfter(c, "update")
    /\ stats' = [stats EXCEPT ![c].undelivered = @ - 1, ![c].in_cycle = @ + 1]
    /\ UNCHANGED <<command_parser, printer_state, clients, server, sync,
                   sends, ops, seg, flushed>>
    /\ UNCHANGED feed_vars

\* _process_data: await self.printer_state.update_state(cmd_obj), then
\* asyncio.sleep(0.002)
StateStep(c) ==
    /\ running = c
    /\ conn[c].pc = "update"
    /\ LET cmd_obj == Command(conn[c].command.type, conn[c].command.raw_data,
                              conn[c].command.parameters)
           ps2 == update_state(printer_state, cmd_obj, Now)
       IN  /\ printer_state' = ps2
           /\ seg' = SegAfter(printer_state, ps2, cmd_obj)
           /\ flushed' = FlushedAfter(printer_state, ps2, cmd_obj)
    /\ conn' = [conn EXCEPT ![c].pc = "sleep",
                            ![c].wake = Now + ProcessingDelay]
    /\ running' = LoopAfter(c, "sleep")
    /\ stats' = [stats EXCEPT ![c].in_cycle = @ - 1]
    /\ UNCHANGED <<command_parser, error_simulator, clients, server, sync,
                   sends, ops>>
    /\ UNCHANGED feed_vars

\* PrinterState.get_status: the fields _create_status_response reads
get_status(ps) == [online |-> ps.online, paper_status |-> ps.paper_status]

\* ClientConnection._create_status_response: the status byte, 0x08 or-ed in
\* when offline and 0x20 when the paper is not loaded
create_status_response(status) ==
    <<(IF ~status.online THEN 8 ELSE 0)
      + (IF status.paper_status # "loaded" THEN 32 ELSE 0)>>

\* variant of _send_response that answers every command
send_response_always(command, ps) == create_status_response(get_status(ps))

\* ClientConnection._send_response: the bytes written to the connection
send_response(command, ps) ==
    IF command.type = "status_request"
    THEN create_status_response(get_status(ps))
    ELSE <<>>

\* _process_data after the sleep: _send_response (no parsed command has the
\* type status_request, so nothing is written), then parse_command(b"")
Resume(c) ==
    /\ running = Idle
    /\ conn[c].pc = "sleep"
    /\ Now >= conn[c].wake
    /\ TakeCommand(c, parse_command(command_parser, <<>>))
    /\ UNCHANGED <<printer_state, error_simulator, server, sync, sends, ops,
                   seg, flushed>>
    /\ UNCHANGED feed_vars

\* variant in which a dropped connection takes the whole client list with it
Disconnect_all(c) ==
    /\ running = Idle
    /\ conn[c].pc = "read"
    /\ conn' = [conn EXCEPT ![c].pc = "closed"]
    /\ clients' = {}
    /\ UNCHANGED <<running, command_parser, printer_state, error_simulator,
                   server, sync, sends, ops, stats, seg, flushed>>
    /\ UNCHANGED feed_vars

\* handle_client: reader.read returns b"" (the client closed) or raises (the
\* transport failed; caught at line 49), the writer is closed and
\* _handle_connection removes the client
Disconnect(c) ==
    /\ running = Idle
    /\ conn[c].pc = "read"
    /\ conn' = [conn EXCEPT ![c].pc = "closed"]
    /\ clients' = clients \ {c}
    /\ UNCHANGED <<running, command_parser, printer_state, error_simulator,
                   server, sync, sends, ops, stats, seg, flushed>>
    /\ UNCHANGED feed_vars

\* a stored time one millisecond later; a time so old that no comparison
\* tells it from an older one stays
Earlier(t, oldest) == IF t - 1 < oldest THEN oldest ELSE t - 1

\* the largest after_time threshold a registered condition may carry
LongestDelay ==
    LET delays == {0} \cup {m.trigger_value : m \in
                              {m \in ConditionMenu \cup SimConditionMenu :
                                 m.trigger_type = "after_time"}}
    IN  CHOOSE d \in delays : \A e \in delays : e <= d

\* A millisecond passes while no task runs and some timer is still pending
\* (a sleep, the coalescing window, an after_time threshold).  The loop does
\* not wait past a sleep that is due: the sleeper resumes first.
Tick ==
    /\ running = Idle
    /\ \A c \in Conns : conn[c].pc = "sleep" => conn[c].wake > Now
    /\ \A k \in DOMAIN sync : sync[k].pc = "sleep" => sync[k].wake > Now
    /\ \/ \E c \in Conns : conn[c].pc = "sleep" /\ conn[c].wake > Now
       \/ \E k \in DOMAIN sync : sync[k].pc = "sleep" /\ sync[k].wake > Now
       \/ /\ printer_state.last_text_time # NoTime
          /\ printer_state.last_text_time > Now - CoalesceWindow
       \/ error_simulator.start_time > Now - LongestDelay
    /\ printer_state' =
         [printer_state EXCEPT
            !.last_text_time = IF @ = NoTime THEN NoTime
                               ELSE Earlier(@, Now - CoalesceWindow)]
    /\ error_simulator' =
         [error_simulator EXCEPT
            !.start_time = Earlier(@, Now - LongestDelay)]
    /\ conn' = [c \in Conns |->
                  [conn[c] EXCEPT !.wake = Earlier(@, Now)]]
    /\ sync' = [k \in DOMAIN sync |->
                  [sync[k] EXCEPT !.wake = Earlier(@, Now)]]
    /\ UNCHANGED <<running, command_parser, clients, server, sends, ops,
                   stats, seg, flushed>>
    /\ UNCHANGED feed_vars

\* a call of the operator surface; it runs without suspending
OperatorCall ==
    /\ running = Idle
    /\ ops < MaxOps
    /\ ops' = ops + 1
    /\ UNCHANGED <<running, clients, server, conn, sends, stats, sync>>
    /\ UNCHANGED feed_vars

\* ErrorSimulator.add_error_condition, called on the server's simulator
AddErrorCondition(condition) ==
    /\ OperatorCall
    /\ error_simulator' = add_error_condition(error_simulator, condition)
    /\ UNCHANGED <<command_parser, printer_state, seg, flushed>>

\* VirtualPrinterServer.simulate_error
SimulateError(error_type) ==
    /\ OperatorCall
    /\ error_simulator' = trigger_error(error_simulator, error_type)
    /\ printer_state' = state_simulate_error(printer_state, error_type)
    /\ UNCHANGED <<command_parser, seg, flushed>>

\* VirtualPrinterServer.reset
Reset ==
    /\ OperatorCall
    /\ printer_state' = state_simulate_error(printer_state, "reset")
    /\ command_parser' = [command_parser EXCEPT !.buffer = <<>>]
    /\ seg' = NewSeg
    /\ UNCHANGED <<error_simulator, flushed>>

\* The server with its connections and the operator
Next ==
    \/ \E c \in Conns : Accept(c)
    \/ \E c \in Conns : \E data \in Chunks : Receive(c, data)
    \/ \E c \in Conns : SimulatorStep(c)
    \/ \E c \in Conns : StateStep(c)
    \/ \E c \in Conns : Resume(c)
    \/ \E c \in Conns : Disconnect(c)
    \/ Tick
    \/ \E condition \in ConditionMenu : AddErrorCondition(condition)
    \/ \E error_type \in SimulatedErrors : SimulateError(error_type)
    \/ Reset

Spec == Init /\ [][Next]_vars

----------------------------------------------------------------------------
(* Connections that send commands in pieces: SpecStreams                   *)

\* chunks of the clients: GS V (a cut command without its mode byte) and "A"
StreamChunks == { <<GS, 86>>, <<65>> }

\* Receive, with the call of parse_command kept in the history: the
\* connection that read the chunk, the chunk and what the call returned
StreamReceive(c, data) ==
    /\ running = Idle
    /\ conn[c].pc = "read"
    /\ sends < MaxSends
    /\ sends' = sends + 1
    /\ LET r == parse_command(command_parser, data)
       IN  /\ TakeCommand(c, r)
           /\ feed_results' =
                Append(feed_results,
                       [conn |-> c, data |-> data, decoded |-> r.decoded,
                        returned |-> r.returned, buffer |-> r.parser.buffer])
    /\ UNCHANGED <<printer_state, error_simulator, server, sync, ops, seg,
                   flushed, feed_todo, feed_done>>

NextStreams ==
    \/ \E c \in Conns : Accept(c)
    \/ \E c \in Conns : \E data \in StreamChunks : StreamReceive(c, data)
    \/ \E c \in Conns : SimulatorStep(c)
    \/ \E c \in Conns : StateStep(c)
    \/ \E c \in Conns : Resume(c)
    \/ \E c \in Conns : Disconnect(c)
    \/ Tick

SpecStreams == Init /\ [][NextStreams]_vars

----------------------------------------------------------------------------
(* Connections that send bytes the decoder has no rule for: SpecAnomalies  *)

\* chunks of the clients: an unrecognized ESC selector followed by "A", an
\* unrecognized GS selector, ESC t 1 (selects cp932), and the byte 0x81,
\* which cp932 cannot decode on its own
AnomalyChunks == { <<ESC, 153, 65>>, <<GS, 153>>, <<ESC, 116, 1>>, <<129>> }

\* A decode raised inside parse_command: text_data.decode(encoding) raised
\* UnicodeDecodeError and so did the decode in the except branch (the
\* barcode data is decoded with errors='ignore', which raises for no bytes)
parse_command_raises(r) ==
    \E i \in 1..Len(r.decoded) :
       /\ r.decoded[i].type = "text"
       /\ Undecodable(r.decoded[i].parameters.codec, r.decoded[i].raw_data)

\* The parse_command call of connection c has returned r, or has raised: an
\* exception leaves _process_data, handle_client logs it (line 49-50),
\* closes the writer and _handle_connection removes the client
ParseOutcome(c, r) ==
    IF parse_command_raises(r)
    THEN /\ command_parser' = r.parser
         /\ conn' = [conn EXCEPT ![c].pc = "closed", ![c].command = None]
         /\ clients' = clients \ {c}
         /\ running' = Idle
         /\ UNCHANGED stats
    ELSE TakeCommand(c, r)

\* handle_client: reader.read returns a chunk, and _process_data parses it
AnomalyReceive(c, data) ==
    /\ running = Idle
    /\ conn[c].pc = "read"
    /\ sends < MaxSends
    /\ sends' = sends + 1
    /\ ParseOutcome(c, parse_command(command_parser, data))
    /\ UNCHANGED <<printer_state, error_simulator, server, sync, ops, seg,
                   flushed>>
    /\ UNCHANGED feed_vars

\* _process_data after the sleep: parse_command(b"")
AnomalyResume(c) ==
    /\ running = Idle
    /\ conn[c].pc = "sleep"
    /\ Now >= conn[c].wake
    /\ ParseOutcome(c, parse_command(command_parser, <<>>))
    /\ UNCHANGED <<printer_state, error_simulator, server, sync, sends, ops,
                   seg, flushed>>
    /\ UNCHANGED feed_vars

NextAnomalies ==
    \/ \E c \in Conns : Accept(c)
    \/ \E c \in Conns : \E data \in AnomalyChunks : AnomalyReceive(c, data)
    \/ \E c \in Conns : SimulatorStep(c)
    \/ \E c \in Conns : StateStep(c)
    \/ \E c \in Conns : AnomalyResume(c)
    \/ \E c \in Conns : Disconnect(c)
    \/ Tick

SpecAnomalies == Init /\ [][NextAnomalies]_vars

----------------------------------------------------------------------------
(* The server shutting down while connections are served                   *)

\* positions of a connection whose task has not ended: parked in
\* reader.read, or inside _process_data
ReadLoop == {"read", "sim", "update", "sleep"}

\* Server.wait_closed() after Server.close(): it returns at once where the
\* interpreter does not track the connections of a server (CPython up to
\* 3.11), and waits until every connection of the server is closed where it
\* does (3.12 and later); the repository pins no interpreter
WaitClosedWaits == BOOLEAN

\* ClientConnection.disconnect: only the flag is cleared
disconnect(connection) == [connection EXCEPT !.running = FALSE]

\* VirtualPrinterServer.stop up to the await of wait_closed(): disconnect()
\* on every client of the list, then server.close()
Stop(waits) ==
    /\ running = Idle
    /\ server.running
    /\ server.stop = "none"
    /\ conn' = [c \in Conns |->
                  IF c \in clients THEN disconnect(conn[c]) ELSE conn[c]]
    /\ server' = IF waits
                 THEN [server EXCEPT !.listening = FALSE, !.stop = "waiting"]
                 ELSE [running |-> FALSE, listening |-> FALSE,
                       stop |-> "returned"]
    /\ UNCHANGED <<running, command_parser, printer_state, error_simulator,
                   clients, sync, sends, ops, stats, seg, flushed>>
    /\ UNCHANGED feed_vars

\* stop after wait_closed(): the last connection of the server is closed,
\* _running is cleared and stop returns
StopReturns ==
    /\ running = Idle
    /\ server.stop = "waiting"
    /\ \A c \in Conns : conn[c].pc \notin ReadLoop
    /\ server' = [running |-> FALSE, listening |-> FALSE, stop |-> "returned"]
    /\ UNCHANGED <<running, command_parser, printer_state, error_simulator,
                   clients, conn, sync, sends, ops, stats, seg, flushed>>
    /\ UNCHANGED feed_vars

NextShutdown ==
    \/ \E c \in Conns : Accept(c)
    \/ \E c \in Conns : \E data \in Chunks : Receive(c, data)
    \/ \E c \in Conns : SimulatorStep(c)
    \/ \E c \in Conns : StateStep(c)
    \/ \E c \in Conns : Resume(c)
    \/ \E c \in Conns : Disconnect(c)
    \/ Tick
    \/ \E waits \in WaitClosedWaits : Stop(waits)
    \/ StopReturns

SpecShutdown == Init /\ [][NextShutdown]_vars

----------------------------------------------------------------------------
(* A PrinterState alone, under the calls its users make                    *)

\* the Command _process_data builds from the parser's first command for bytes
ParsedCommand(bytes) ==
    LET command == parse_command(NewParser, bytes).returned[1]
    IN  Command(command.type, command.raw_data, command.parameters)

\* commands the connections pass to update_state: text "A", text "B", GS V A
StateCommands ==
    { ParsedCommand(<<65>>), ParsedCommand(<<66>>),
      ParsedCommand(<<29, 86, 65>>) }

\* error types passed to PrinterState.simulate_error
StateErrors == {"paper_out", "reset"}

StateCall ==
    /\ running = Idle
    /\ ops < MaxUpdates
    /\ ops' = ops + 1
    /\ UNCHANGED <<running, command_parser, error_simulator>>
    /\ UNCHANGED conn_vars
    /\ UNCHANGED feed_vars

\* await self.printer_state.update_state(cmd_obj) (virtual_printer.py:75)
UpdateState(command) ==
    /\ StateCall
    /\ LET ps2 == update_state(printer_state, command, Now)
       IN  /\ printer_state' = ps2
           /\ seg' = SegAfter(printer_state, ps2, command)
           /\ flushed' = FlushedAfter(printer_state, ps2, command)
    /\ UNCHANGED sync

\* variant of update_state_sync that does not mark text as forced
SyncCall_unforced(k, call) ==
    /\ StateCall
    /\ sync[k].pc = "idle"
    /\ sync' = [sync EXCEPT
                  ![k].pc = "sleep",
                  ![k].wake = Now + ProcessingDelay,
                  ![k].command =
                      Command(call[1], or_empty(call[2]), [kind |-> "sync"])]
    /\ printer_state' = IF call[1] = "text"
                        THEN start_new_text_block(printer_state)
                        ELSE printer_state
    /\ UNCHANGED <<seg, flushed>>

\* PrinterState.update_state_sync up to its asyncio.sleep(0.002)
SyncCall(k, call) ==
    /\ StateCall
    /\ sync[k].pc = "idle"
    /\ sync' = [sync EXCEPT
                  ![k].pc = "sleep",
                  ![k].wake = Now + ProcessingDelay,
                  ![k].command =
                      Command(call[1], or_empty(call[2]),
                              IF call[1] = "text"
                              THEN [kind |-> "sync", force_new |-> TRUE]
                              ELSE [kind |-> "sync"])]
    /\ printer_state' = IF call[1] = "text"
                        THEN start_new_text_block(printer_state)
                        ELSE printer_state
    /\ UNCHANGED <<seg, flushed>>

\* PrinterState.update_state_sync after the sleep: await self.update_state
SyncUpdate(k) ==
    /\ running = Idle
    /\ sync[k].pc = "sleep"
    /\ Now >= sync[k].wake
    /\ LET ps2 == update_state(printer_state, sync[k].command, Now)
       IN  /\ printer_state' = ps2
           /\ seg' = SegAfter(printer_state, ps2, sync[k].command)
           /\ flushed' = FlushedAfter(printer_state, ps2, sync[k].command)
    /\ sync' = [sync EXCEPT ![k].pc = "idle"]
    /\ UNCHANGED <<running, command_parser, error_simulator, ops>>
    /\ UNCHANGED conn_vars
    /\ UNCHANGED feed_vars

\* PrinterState.simulate_error
StateSimulateError(error_type) ==
    /\ StateCall
    /\ printer_state' = state_simulate_error(printer_state, error_type)
    /\ seg' = IF error_type = "reset" THEN NewSeg ELSE seg
    /\ UNCHANGED <<sync, flushed>>

\* PrinterState.clear_history
StateClearHistory ==
    /\ StateCall
    /\ printer_state' = clear_history(printer_state)
    /\ seg' = NewSeg
    /\ UNCHANGED <<sync, flushed>>

NextState ==
    \/ \E command \in StateCommands : UpdateState(command)
    \/ \E k \in Callers : \E call \in SyncCalls : SyncCall(k, call)
    \/ \E k \in Callers : SyncUpdate(k)
    \/ \E error_type \in StateErrors : StateSimulateError(error_type)
    \/ StateClearHistory
    \/ Tick

SpecState == Init /\ [][NextState]_vars

----------------------------------------------------------------------------
(* A PrinterState with simulated faults: SpecFaults                        *)

\* error types passed to PrinterState.simulate_error; cover_open is a type
\* simulate_error does not know
FaultTypes == {"offline", "paper_out", "paper_jam", "reset", "cover_open"}

NextFaults ==
    \/ \E command \in StateCommands : UpdateState(command)
    \/ \E error_type \in FaultTypes : StateSimulateError(error_type)
    \/ StateClearHistory
    \/ Tick

SpecFaults == Init /\ [][NextFaults]_vars

----------------------------------------------------------------------------
(* A PrinterState that receives every kind of command: SpecJobs            *)

\* commands that print at once: update_state_sync('qr', b'1', {}) and
\* ('image', b'11', {}), and the barcode GS k 4 1 '1' as the parser emits it
PrintableCommands ==
    { Command("qr", <<49>>, [kind |-> "sync"]),
      Command("image", <<49, 49>>, [kind |-> "sync"]),
      ParsedCommand(<<GS, 107, 4, 1, 49>>) }

\* commands that only get logged: feed (ESC d 1), cut_partial (ESC i) as the
\* parser emits them, and update_state_sync('unknown', b'\x1b\x99', {})
LoggedCommands ==
    { ParsedCommand(<<ESC, 100, 1>>), ParsedCommand(<<ESC, 105>>),
      Command("unknown", <<ESC, 153>>, [kind |-> "sync"]) }

\* the Command _on_call builds for the service print_text with the text "A"
MirroredText ==
    Command("text", <<65>>,
            [kind |-> "mirror", force_new |-> TRUE, mirrored |-> TRUE])

JobCommands ==
    PrintableCommands \cup LoggedCommands
    \cup { ParsedCommand(<<65>>), ParsedCommand(<<GS, 86, 65>>),
           ParsedCommand(<<ESC, 109>>), MirroredText }

NextJobs ==
    \/ \E command \in JobCommands : UpdateState(command)
    \/ \E error_type \in {"offline", "paper_out"} :
         StateSimulateError(error_type)
    \/ Tick

SpecJobs == Init /\ [][NextJobs]_vars

----------------------------------------------------------------------------
(* A PrinterState under concurrent update_state_sync('text', ..) callers:  *)
(* SpecSync                                                                *)

SyncCallers == 1..NumSyncCallers

\* update_state_sync('text', data, {}) with a payload, with b"" and with
\* None
SyncTextCalls == { <<"text", Bytes(<<67>>)>>, <<"text", Bytes(<<>>)>>,
                   <<"text", None>> }

\* a fresh PrinterState and callers that have not called yet
InitSync ==
    /\ running = Idle
    /\ command_parser = NewParser
    /\ printer_state = NewPrinterState
    /\ error_simulator = NewErrorSimulator(Now)
    /\ clients = {}
    /\ server = NewServer
    /\ conn = [c \in Conns |-> NewConn]
    /\ sync = [k \in SyncCallers |-> NewSync]
    /\ sends = 0
    /\ ops = 0
    /\ stats = [c \in Conns |-> [undelivered |-> 0, in_cycle |-> 0]]
    /\ seg = NewSeg
    /\ flushed = NoFlush
    /\ feed_todo = <<>>
    /\ feed_done = <<>>
    /\ feed_results = <<>>

NextSync ==
    \/ \E k \in SyncCallers : \E call \in SyncTextCalls : SyncCall(k, call)
    \/ \E k \in SyncCallers : SyncUpdate(k)
    \/ Tick

SpecSync == InitSync /\ [][NextSync]_vars

----------------------------------------------------------------------------
(* A PrinterState that observes each print_text call twice: SpecMirror     *)

\* texts of the print_text service calls: "A", "B"
MirrorTexts == { <<65>>, <<66>> }

\* the Command _on_call builds for the service print_text
MirroredCommand(text) ==
    Command("text", text,
            [kind |-> "mirror", force_new |-> TRUE, mirrored |-> TRUE])

\* The service call print_text(text) is fired on the bus: _on_call calls
\* start_new_text_block() and schedules update_state(cmd) on the loop, and
\* the service handler puts the text on the wire.  Both observations are
\* outstanding.
PrintText(k, text) ==
    /\ StateCall
    /\ sync[k].pc = "idle"
    /\ sync' = [sync EXCEPT ![k].pc = "both",
                            ![k].command = MirroredCommand(text)]
    /\ printer_state' = start_new_text_block(printer_state)
    /\ UNCHANGED <<seg, flushed>>

\* an observation of call k reaches update_state; who is the position that
\* is left when the other observation is still outstanding
Observe(k, command, outstanding, who) ==
    /\ running = Idle
    /\ sync[k].pc \in {"both", outstanding}
    /\ LET ps2 == update_state(printer_state, command, Now)
       IN  /\ printer_state' = ps2
           /\ seg' = SegAfter(printer_state, ps2, command)
           /\ flushed' = FlushedAfter(printer_state, ps2, command)
    /\ sync' = [sync EXCEPT
                  ![k].pc = IF @ = "both" THEN who ELSE "idle",
                  ![k].command = IF sync[k].pc = "both" THEN @ ELSE None]
    /\ UNCHANGED <<running, command_parser, error_simulator, ops>>
    /\ UNCHANGED conn_vars
    /\ UNCHANGED feed_vars

\* the coroutine scheduled by _on_call runs: update_state(cmd) with the
\* mirrored command
MirrorUpdate(k) == Observe(k, sync[k].command, "mirror", "network")

\* the text of the call arrives on a connection: _process_data passes the
\* parsed text command to update_state
NetworkUpdate(k) ==
    Observe(k, ParsedCommand(sync[k].command.raw_data), "network", "mirror")

NextMirror ==
    \/ \E k \in Callers : \E text \in MirrorTexts : PrintText(k, text)
    \/ \E k \in Callers : MirrorUpdate(k)
    \/ \E k \in Callers : NetworkUpdate(k)
    \/ Tick

SpecMirror == Init /\ [][NextMirror]_vars

----------------------------------------------------------------------------
(* An ErrorSimulator alone, under the calls its users make                 *)

SimulatorCall ==
    /\ running = Idle
    /\ ops < MaxCalls
    /\ ops' = ops + 1
    /\ UNCHANGED <<running, command_parser, printer_state, sync, seg, flushed>>
    /\ UNCHANGED conn_vars
    /\ UNCHANGED feed_vars

\* ErrorSimulator.add_error_condition
SimAdd(condition) ==
    /\ SimulatorCall
    /\ error_simulator' = add_error_condition(error_simulator, condition)

\* ErrorSimulator.remove_error_condition
SimRemove(error_type) ==
    /\ SimulatorCall
    /\ error_simulator' = remove_error_condition(error_simulator, error_type)

\* ErrorSimulator.trigger_error
SimTrigger(error_type) ==
    /\ SimulatorCall
    /\ error_simulator' = trigger_error(error_simulator, error_type)

\* ErrorSimulator.process_command(command_type, **kwargs)
SimProcessWith(command_type, kwargs) ==
    /\ SimulatorCall
    /\ \E draw \in Draws :
         error_simulator' =
             process_command(error_simulator, command_type, Now, draw,
                             kwargs).sim

\* ErrorSimulator.process_command(command_type)
SimProcess(command_type) == SimProcessWith(command_type, NoKwargs)

\* ErrorSimulator.clear_all_errors
SimClearAll ==
    /\ SimulatorCall
    /\ error_simulator' = clear_all_errors(error_simulator)

\* ErrorSimulator.reset
SimReset ==
    /\ SimulatorCall
    /\ error_simulator' = simulator_reset(error_simulator, Now)

NextSim ==
    \/ \E condition \in SimConditionMenu : SimAdd(condition)
    \/ \E error_type \in SimulatedErrors : SimRemove(error_type)
    \/ \E error_type \in SimulatedErrors : SimTrigger(error_type)
    \/ \E command_type \in CommandTypes : SimProcess(command_type)
    \/ SimReset

SpecSim == Init /\ [][NextSim]_vars

----------------------------------------------------------------------------
(* The server's admission of connections under operator calls:             *)
(* SpecAdmission                                                           *)

\* a call on the server object; it runs without suspending
ServerCall ==
    /\ running = Idle
    /\ ops < MaxCalls
    /\ ops' = ops + 1
    /\ UNCHANGED <<running, sync>>
    /\ UNCHANGED conn_vars
    /\ UNCHANGED feed_vars

\* VirtualPrinterServer.simulate_error
ServerSimulateError(error_type) ==
    /\ ServerCall
    /\ error_simulator' = trigger_error(error_simulator, error_type)
    /\ printer_state' = state_simulate_error(printer_state, error_type)
    /\ UNCHANGED <<command_parser, seg, flushed>>

\* VirtualPrinterServer.reset
ServerReset ==
    /\ ServerCall
    /\ printer_state' = state_simulate_error(printer_state, "reset")
    /\ command_parser' = [command_parser EXCEPT !.buffer = <<>>]
    /\ UNCHANGED <<error_simulator, seg, flushed>>

NextAdmission ==
    \/ \E c \in Conns : Accept(c)
    \/ \E condition \in ConditionMenu : SimAdd(condition)
    \/ \E error_type \in SimulatedErrors : SimRemove(error_type)
    \/ \E error_type \in SimulatedErrors : ServerSimulateError(error_type)
    \/ \E command_type \in CommandTypes : SimProcess(command_type)
    \/ ServerReset

SpecAdmission == Init /\ [][NextAdmission]_vars

----------------------------------------------------------------------------
(* The locks of the shared state under concurrent tasks: SpecLocks         *)

Tasks == 1..NumTasks

\* PrinterState._lock and ErrorSimulator._lock
StateLock == "PrinterState._lock"
SimLock == "ErrorSimulator._lock"

\* The steps of a coroutine: "async with lock" entered and left, a body
\* that runs without suspending, and asyncio.sleep
Acquire(lock) == [kind |-> "acquire", arg |-> lock]
Release(lock) == [kind |-> "release", arg |-> lock]
Body(name) == [kind |-> "body", arg |-> name]
Sleep == [kind |-> "sleep", arg |-> "asyncio.sleep"]

\* one operation under its lock
Locked(lock, name) == << Acquire(lock), Body(name), Release(lock) >>

\* variant in which _add_print_job takes the lock its caller holds
LockProgram_reentrant(op) ==
    CASE op = "update_state" ->
            << Acquire(StateLock), Acquire(StateLock), Body("update_state"),
               Release(StateLock), Release(StateLock) >>
      [] op = "update_state_sync" ->
            << Body("start_new_text_block"), Sleep >>
            \o Locked(StateLock, "update_state_forced")
      [] op \in {"get_status", "state_simulate_error", "clear_history"} ->
            Locked(StateLock, op)
      [] op \in {"process_command", "trigger_error", "add_error_condition",
                 "remove_error_condition", "simulator_reset"} ->
            Locked(SimLock, op)
      [] op = "process_data" ->
            Locked(SimLock, "process_command")
            \o Locked(StateLock, "update_state") \o << Sleep >>
      [] op = "simulate_error" ->
            Locked(SimLock, "trigger_error")
            \o Locked(StateLock, "state_simulate_error")

\* variant in which _process_data sleeps inside update_state's locked body
LockProgram_sleeps_locked(op) ==
    CASE op = "update_state" -> Locked(StateLock, "update_state")
      [] op = "update_state_sync" ->
            << Body("start_new_text_block"), Sleep >>
            \o Locked(StateLock, "update_state_forced")
      [] op \in {"get_status", "state_simulate_error", "clear_history"} ->
            Locked(StateLock, op)
      [] op \in {"process_command", "trigger_error", "add_error_condition",
                 "remove_error_condition", "simulator_reset"} ->
            Locked(SimLock, op)
      [] op = "process_data" ->
            Locked(SimLock, "process_command")
            \o << Acquire(StateLock), Body("update_state"), Sleep,
                  Release(StateLock) >>
      [] op = "simulate_error" ->
            Locked(SimLock, "trigger_error")
            \o Locked(StateLock, "state_simulate_error")

\* The steps of each operation.  update_state, get_status, simulate_error
\* and clear_history of PrinterState hold PrinterState._lock for their whole
\* body (_add_print_job takes no lock); update_state_sync sleeps and then
\* calls update_state; the operations of ErrorSimulator hold
\* ErrorSimulator._lock (_activate_error and _recover_error take no lock);
\* the body of "while command:" in _process_data calls process_command, then
\* update_state, then sleeps (_send_response writes nothing for the types
\* the parser emits); VirtualPrinterServer.simulate_error calls
\* trigger_error, then PrinterState.simulate_error
LockProgram(op) ==
    CASE op = "update_state" -> Locked(StateLock, "update_state")
      [] op = "update_state_sync" ->
            << Body("start_new_text_block"), Sleep >>
            \o Locked(StateLock, "update_state_forced")
      [] op \in {"get_status", "state_simulate_error", "clear_history"} ->
            Locked(StateLock, op)
      [] op \in {"process_command", "trigger_error", "add_error_condition",
                 "remove_error_condition", "simulator_reset"} ->
            Locked(SimLock, op)
      [] op = "process_data" ->
            Locked(SimLock, "process_command")
            \o Locked(StateLock, "update_state") \o << Sleep >>
      [] op = "simulate_error" ->
            Locked(SimLock, "trigger_error")
            \o Locked(StateLock, "state_simulate_error")

\* the operations the tasks call
TaskOps ==
    {"update_state", "update_state_sync", "get_status",
     "state_simulate_error", "clear_history", "process_command",
     "trigger_error", "add_error_condition", "remove_error_condition",
     "simulator_reset", "process_data", "simulate_error"}

\* a task that is in no operation
NewTask == [pc |-> "idle", op |-> "none", at |-> 0, held |-> {}]

\* a fresh PrinterState and ErrorSimulator, and tasks that have not called
InitLocks ==
    /\ running = Idle
    /\ command_parser = NewParser
    /\ printer_state = NewPrinterState
    /\ error_simulator = NewErrorSimulator(Now)
    /\ clients = {}
    /\ server = NewServer
    /\ conn = [c \in Conns |-> NewConn]
    /\ sync = [k \in Tasks |-> NewTask]
    /\ sends = 0
    /\ ops = 0
    /\ stats = [c \in Conns |-> [undelivered |-> 0, in_cycle |-> 0]]
    /\ seg = NewSeg
    /\ flushed = NoFlush
    /\ feed_todo = <<>>
    /\ feed_done = <<>>
    /\ feed_results = <<>>

\* asyncio.Lock.locked()
Locked_by(lock) == { k \in Tasks : lock \in sync[k].held }

\* the state after the body of an operation, with the arguments the harness
\* passes: the text "A", the error type offline, the first condition of the
\* menu
BodyState(name) ==
    CASE name = "update_state" ->
            update_state(printer_state, ParsedCommand(<<65>>), Now)
      [] name = "update_state_forced" ->
            update_state(printer_state,
                         Command("text", <<67>>,
                                 [kind |-> "sync", force_new |-> TRUE]), Now)
      [] name = "start_new_text_block" -> start_new_text_block(printer_state)
      [] name = "state_simulate_error" ->
            state_simulate_error(printer_state, "offline")
      [] name = "clear_history" -> clear_history(printer_state)
      [] OTHER -> printer_state

BodySimulator(name) ==
    CASE name = "process_command" ->
            process_command(error_simulator, "text", Now, 0, NoKwargs).sim
      [] name = "trigger_error" -> trigger_error(error_simulator, "offline")
      [] name = "add_error_condition" ->
            add_error_condition(error_simulator,
               ErrorCondition("offline", "after_commands", 2, 0, "manual",
                              "none"))
      [] name = "remove_error_condition" ->
            remove_error_condition(error_simulator, "offline")
      [] name = "simulator_reset" -> simulator_reset(error_simulator, Now)
      [] OTHER -> error_simulator

\* a task is created for a call of op; it runs when the loop gets to it
TaskCall(k, op) ==
    /\ running = Idle
    /\ ops < MaxTaskCalls
    /\ sync[k].pc = "idle"
    /\ ops' = ops + 1
    /\ sync' = [sync EXCEPT ![k] = [pc |-> "ready", op |-> op, at |-> 1,
                                    held |-> {}]]
    /\ UNCHANGED <<running, command_parser, printer_state, error_simulator,
                   seg, flushed>>
    /\ UNCHANGED conn_vars
    /\ UNCHANGED feed_vars

\* the loop can give task k the next turn: it is ready, its sleep is over, or
\* the lock it waits for is free
Resumable(k) ==
    \/ sync[k].pc \in {"ready", "sleep"}
    \/ /\ sync[k].pc = "wait"
       /\ Locked_by(LockProgram(sync[k].op)[sync[k].at].arg) = {}

\* Task k runs its next step.  A task keeps the loop until it suspends: in
\* asyncio.sleep, in Lock.acquire when the lock is taken (asyncio.Lock is
\* not reentrant: the holder itself waits too), or by returning.
TaskStep(k) ==
    /\ sync[k].pc # "idle"
    /\ running = k \/ (running = Idle /\ Resumable(k))
    /\ LET program == LockProgram(sync[k].op)
           step == IF sync[k].at > Len(program)
                   THEN [kind |-> "return", arg |-> sync[k].op]
                   ELSE program[sync[k].at]
           last == sync[k].at = Len(program)
           on == [sync[k] EXCEPT !.at = @ + 1, !.pc = "run"]
           done == NewTask
       IN  CASE step.kind = "acquire" ->
                  IF Locked_by(step.arg) = {}
                  THEN /\ sync' = [sync EXCEPT
                                     ![k] = [on EXCEPT
                                               !.held = @ \cup {step.arg}]]
                       /\ running' = k
                       /\ UNCHANGED <<printer_state, error_simulator>>
                  ELSE /\ sync' = [sync EXCEPT ![k].pc = "wait"]
                       /\ running' = Idle
                       /\ UNCHANGED <<printer_state, error_simulator>>
             [] step.kind = "release" ->
                  /\ sync' = [sync EXCEPT
                                ![k] = IF last THEN done
                                       ELSE [on EXCEPT
                                               !.held = @ \ {step.arg}]]
                  /\ running' = IF last THEN Idle ELSE k
                  /\ UNCHANGED <<printer_state, error_simulator>>
             [] step.kind = "body" ->
                  /\ sync' = [sync EXCEPT ![k] = IF last THEN done ELSE on]
                  /\ running' = IF last THEN Idle ELSE k
                  /\ printer_state' = BodyState(step.arg)
                  /\ error_simulator' = BodySimulator(step.arg)
             [] step.kind = "sleep" ->
                  /\ sync' = [sync EXCEPT ![k] = [on EXCEPT !.pc = "sleep"]]
                  /\ running' = Idle
                  /\ UNCHANGED <<printer_state, error_simulator>>
             [] step.kind = "return" ->
                  /\ sync' = [sync EXCEPT ![k] = done]
                  /\ running' = Idle
                  /\ UNCHANGED <<printer_state, error_simulator>>
    /\ UNCHANGED <<command_parser, ops, seg, flushed>>
    /\ UNCHANGED conn_vars
    /\ UNCHANGED feed_vars

NextLocks ==
    \/ \E k \in Tasks : \E op \in TaskOps : TaskCall(k, op)
    \/ \E k \in Tasks : TaskStep(k)

SpecLocks == InitLocks /\ [][NextLocks]_vars

\* the event loop runs every task that can run
SpecLocksLive == SpecLocks /\ \A k \in Tasks : WF_vars(TaskStep(k))

----------------------------------------------------------------------------
(* An ErrorSimulator with conditions that recover: SpecRecovery            *)

\* create_timeout_error('immediate', None, 0.002), create_intermittent_error
\* ('paper_jam', 0, 0) and ('paper_jam', 0, 0.002), create_offline_error()
RecoveryMenu ==
    { ErrorCondition("timeout", "immediate", 0, 2, "auto", "none"),
      ErrorCondition("paper_jam", "after_time", 0, 0, "conditional",
                     "elapsed_ge_duration"),
      ErrorCondition("paper_jam", "after_time", 0, 2, "conditional",
                     "elapsed_ge_duration"),
      ErrorCondition("offline", "immediate", 0, 0, "manual", "none") }

RecoveryTypes == { m.error_type : m \in RecoveryMenu }

\* the longest duration a registered condition may carry
LongestDuration ==
    CHOOSE d \in { m.duration : m \in RecoveryMenu } :
        \A m \in RecoveryMenu : m.duration <= d

\* keyword arguments of the process_command calls
RecoveryKwargs == { NoKwargs, ElapsedKwarg(LongestDuration) }

\* A millisecond passes: the timestamps of the history entries (loop time at
\* _activate_error and _recover_error) fall behind the current instant
RecoveryTick ==
    /\ running = Idle
    /\ \E i \in 1..Len(error_simulator.error_history) :
         error_simulator.error_history[i].timestamp > Now - LongestDuration
    /\ error_simulator' =
         [error_simulator EXCEPT
            !.error_history =
                [i \in 1..Len(@) |->
                    [@[i] EXCEPT
                       !.timestamp = Earlier(@, Now - LongestDuration)]]]
    /\ UNCHANGED <<running, command_parser, printer_state, sync, ops, seg,
                   flushed>>
    /\ UNCHANGED conn_vars
    /\ UNCHANGED feed_vars

NextRecovery ==
    \/ \E condition \in RecoveryMenu : SimAdd(condition)
    \/ \E error_type \in RecoveryTypes : SimRemove(error_type)
    \/ \E error_type \in RecoveryTypes : SimTrigger(error_type)
    \/ \E command_type \in CommandTypes : \E kwargs \in RecoveryKwargs :
         SimProcessWith(command_type, kwargs)
    \/ SimClearAll
    \/ SimReset
    \/ RecoveryTick

SpecRecovery == Init /\ [][NextRecovery]_vars

----------------------------------------------------------------------------
(* An EscposCommandParser alone, fed the way _process_data feeds it        *)

\* parameter bytes of the one-argument commands
ArgBytes == {1, 10}

Payload(k) == [i \in 1..k |-> 49]

\* The complete encoding of one command, for every rule of the grammar:
\* ESC @, ESC ! n, ESC - n, ESC a n, ESC d n, ESC i, ESC m, ESC t n,
\* GS V m, GS k m k d1..dk, GS ( L pL pH m d1..d(pL+256*pH), GS H n, GS f n,
\* GS w n, GS h n
FixedEncodings ==
    { <<ESC, 64>>, <<ESC, 105>>, <<ESC, 109>> }
    \cup { <<ESC, x, n>> : x \in {33, 45, 97, 100, 116}, n \in ArgBytes }
    \cup { <<GS, x, n>> : x \in {72, 102, 119, 104}, n \in ArgBytes }
    \cup { <<GS, 86, m>> : m \in {65, 66} }
BarcodeEncodings == { <<GS, 107, 4, k>> \o Payload(k) : k \in 0..MaxPayload }
ImageEncodings ==
    { <<GS, 40, 76, pL, 0, 48>> \o Payload(pL) : pL \in 0..MaxPayload }
Encodings == FixedEncodings \cup BarcodeEncodings \cup ImageEncodings

\* an encoding cut in two at every byte boundary
Splits ==
    UNION { { <<SubSeq(e, 1, i), SubSeq(e, i + 1, Len(e))>> :
                i \in 1..(Len(e) - 1) } : e \in Encodings }

\* an unrecognized ESC selector followed by "A", and an unrecognized GS
\* selector followed by GS V A
UnknownSelectorStreams == { <<ESC, 153, 65>>, <<GS, 153, GS, 86, 65>> }

\* streams read in one piece: each single encoding, and the chunks the
\* clients send
Streams ==
    { <<e>> : e \in Encodings \cup Chunks \cup UnknownSelectorStreams
                    \cup {<<65>>, ExampleStream} }

\* ESC t n for cp932, cp1252 and a number the table does not hold, then a
\* text the code page maps ("A") or not (0x81), read in two pieces; two
\* selects before a text; a select and a text read in one piece
CodepageFeeds ==
    { << <<ESC, 116, n>>, t >> : n \in {1, 16, 99}, t \in { <<65>>, <<129>> } }
    \cup { << <<ESC, 116, 1>>, <<ESC, 116, 16>>, <<129>> >>,
           << <<ESC, 116, 16>>, <<ESC, 116, 1>>, <<65>> >>,
           << <<ESC, 116, 1, 129>> >> }

ParserInputs == Splits \cup Streams \cup CodepageFeeds

InitParser ==
    /\ running = Idle
    /\ command_parser = NewParser
    /\ printer_state = NewPrinterState
    /\ error_simulator = NewErrorSimulator(Now)
    /\ clients = {}
    /\ server = NewServer
    /\ conn = [c \in Conns |-> NewConn]
    /\ sync = [k \in Callers |-> NewSync]
    /\ sends = 0
    /\ ops = 0
    /\ stats = [c \in Conns |-> [undelivered |-> 0, in_cycle |-> 0]]
    /\ seg = NewSeg
    /\ flushed = NoFlush
    /\ feed_todo \in ParserInputs
    /\ feed_done = <<>>
    /\ feed_results = <<>>

\* "while command:" of _process_data: the last call returned a command, so
\* parse_command(b"") is called next
Draining ==
    feed_results # <<>> /\ feed_results[Len(feed_results)].returned # <<>>

ParserCall(data) ==
    LET r == parse_command(command_parser, data)
    IN  /\ command_parser' = r.parser
        /\ feed_results' =
             Append(feed_results,
                    [data |-> data, decoded |-> r.decoded,
                     returned |-> r.returned, buffer |-> r.parser.buffer])
        /\ UNCHANGED <<running, printer_state, error_simulator, sync, ops,
                       seg, flushed>>
        /\ UNCHANGED conn_vars

\* command = self.command_parser.parse_command(data)
Feed ==
    /\ ~Draining
    /\ feed_todo # <<>>
    /\ feed_todo' = Tail(feed_todo)
    /\ feed_done' = Append(feed_done, Head(feed_todo))
    /\ ParserCall(Head(feed_todo))

\* command = self.command_parser.parse_command(b"")
Drain ==
    /\ Draining
    /\ ParserCall(<<>>)
    /\ UNCHANGED <<feed_todo, feed_done>>

NextParser == Feed \/ Drain

SpecParser == InitParser /\ [][NextParser]_vars

----------------------------------------------------------------------------
(* Properties                                                              *)

RECURSIVE AllDecoded(_)
AllDecoded(results) ==
    IF results = <<>> THEN <<>>
    ELSE Head(results).decoded \o AllDecoded(Tail(results))

RECURSIVE AllReturned(_)
AllReturned(results) ==
    IF results = <<>> THEN <<>>
    ELSE Head(results).returned \o AllReturned(Tail(results))

\* C1: every command parse_command decodes is delivered: once the call and
\* the empty-input drain calls after it have returned, the commands returned
\* are the commands decoded from the buffer, in stream order.
C1_EveryDecodedCommandReturned ==
    (feed_results # <<>> /\ ~Draining)
        => AllReturned(feed_results) = AllDecoded(feed_results)

\* the bytes of a command were fed in two calls, cut at a byte boundary
SplitInTwo ==
    /\ Len(feed_done) + Len(feed_todo) = 2
    /\ JoinBytes(feed_done \o feed_todo) \in Encodings

\* C2: partial-buffer correctness: when the full encoding of a command is
\* split into two parse_command calls, the first call emits no command and
\* keeps the prefix buffered, and the second call emits exactly one command
\* whose raw_data is the full encoding.
C2_SplitCommandEmittedOnce ==
    SplitInTwo =>
        /\ Len(feed_done) >= 1 =>
             /\ feed_results[1].returned = <<>>
             /\ feed_results[1].decoded = <<>>
             /\ feed_results[1].buffer = feed_done[1]
        /\ Len(feed_done) = 2 =>
             /\ Len(feed_results[2].decoded) = 1
             /\ Len(feed_results[2].returned) = 1
             /\ feed_results[2].returned[1].raw_data = JoinBytes(feed_done)

\* C3: a sequence of one or more text commands followed by a cut, starting
\* from a flushed state, adds exactly one text PrintJob to print_history.
C3_OneTextJobPerCutSequence ==
    flushed.texts >= 1 => flushed.jobs = 1

\* C3 (amended): in such a sequence every text command that starts a new log
\* entry adds one text PrintJob at once, and the cut adds exactly one more
\* text PrintJob when at least one of them started a new entry (else none).
C3_TextJobsOfCutSequence ==
    flushed.texts >= 1 =>
        /\ Len(flushed.cut_jobs) = (IF flushed.new >= 1 THEN 1 ELSE 0)
        /\ \A i \in 1..Len(flushed.cut_jobs) :
             flushed.cut_jobs[i].content_type = "text"
        /\ flushed.jobs = flushed.new + Len(flushed.cut_jobs)

\* two text commands, each starting its own entry, then a cut: three jobs
C3_Witness ==
    flushed.texts = 2 /\ flushed.new = 2 /\ flushed.jobs = 3

\* C4: the PrintJob a cut produces holds the payloads of all text commands
\* received since the last flush, concatenated in arrival order; the buffer is
\* empty after the cut; a cut with an empty buffer produces no PrintJob.
C4_CutJobHoldsAllText ==
    /\ flushed.buffer_after = <<>>
    /\ flushed.buffer_before = <<>> => flushed.cut_jobs = <<>>
    /\ flushed.texts >= 1 =>
         /\ Len(flushed.cut_jobs) = 1
         /\ flushed.cut_jobs[1].data = flushed.payload

\* what an observer reads from command_log and print_history
LogContent(ps) ==
    [i \in 1..Len(ps.command_log) |->
        <<ps.command_log[i].command_type, ps.command_log[i].raw_data>>]
JobContent(ps) ==
    [i \in 1..Len(ps.print_history) |->
        <<ps.print_history[i].content_type, ps.print_history[i].data>>]

TextPayloads == { <<65>>, <<66>> }
\* a text command as a connection passes it on, and as update_state_sync does
PlainText(payload) == ParsedCommand(payload)
ForcedText(payload) ==
    Command("text", payload, [kind |-> "sync", force_new |-> TRUE])

\* a payload in two parts: the commands that carry the parts and the whole
TwoPartTexts ==
    { [p1 |-> pair[1], p2 |-> pair[2],
       first |-> PlainText(pair[1]),
       second |-> PlainText(pair[2]),
       forced |-> ForcedText(pair[2]),
       whole |-> PlainText(pair[1] \o pair[2])] :
        pair \in { q \in TextPayloads \X TextPayloads : q[1] # q[2] } }

\* C5: text coalescing.  From every reachable state, a payload sent as one
\* text command and the same payload sent as two text commands within the
\* coalescing window (no force-new flag) leave the same command_log and
\* print_history content, one entry and one job holding the whole payload when
\* the text starts a new entry; sent outside the window, or with the force-new
\* flag, the second part gets a log entry and a PrintJob of its own.
C5_TextCoalescing ==
    \A x \in TwoPartTexts :
        LET whole == update_state(printer_state, x.whole, Now)
            first == update_state(printer_state, x.first, Now)
            whole_log == LogContent(whole)
            whole_jobs == JobContent(whole)
            separate_log == Append(LogContent(first), <<"text", x.p2>>)
            separate_jobs == Append(JobContent(first), <<"text", x.p2>>)
            Separate(two) ==
                /\ LogContent(two) = separate_log
                /\ JobContent(two) = separate_jobs
        IN  /\ \A gap \in 0..(CoalesceWindow - 1) :
                 LET two == update_state(first, x.second, Now + gap)
                 IN  /\ LogContent(two) = whole_log
                     /\ JobContent(two) = whole_jobs
            /\ Len(first.command_log) > Len(printer_state.command_log) =>
                 /\ whole_log =
                        Append(LogContent(printer_state),
                               <<"text", x.p1 \o x.p2>>)
                 /\ whole_jobs =
                        Append(JobContent(printer_state),
                               <<"text", x.p1 \o x.p2>>)
            /\ \A gap \in CoalesceWindow..(CoalesceWindow + 1) :
                 Separate(update_state(first, x.second, Now + gap))
            /\ \A gap \in 0..(CoalesceWindow + 1) :
                 Separate(update_state(first, x.forced, Now + gap))

\* "A" and "B" arrived as two text commands within the window and were merged
C5_Witness ==
    /\ \E i \in 1..Len(printer_state.command_log) :
         LogContent(printer_state)[i] = <<"text", <<65, 66>>>>
    /\ \E j \in 1..Len(printer_state.print_history) :
         JobContent(printer_state)[j] = <<"text", <<65, 66>>>>

\* C6: within one connection commands are processed one at a time and in
\* order, process_command before update_state for each command, and
\* process_command is invoked exactly once per decoded command: when the
\* connection is back at its read, no decoded command is left without its call.
C6_InOrderExactlyOnce ==
    \A c \in Conns :
        /\ stats[c].in_cycle = (IF conn[c].pc = "update" THEN 1 ELSE 0)
        /\ conn[c].pc = "sim" => stats[c].undelivered >= 1
        /\ conn[c].pc \in {"read", "closed"} => stats[c].undelivered = 0

\* C7: between process_command and update_state for one command, no simulator
\* step and no state update of another connection or of the operator runs.
C7_CycleIsAtomic ==
    [][\A c \in Conns :
          conn[c].pc = "update" =>
              \/ conn'[c].pc = "sleep"
              \/ /\ error_simulator' = error_simulator
                 /\ printer_state' = printer_state]_vars

\* one connection is between its two steps while another is in mid-cycle
C7_Witness ==
    \E c \in Conns, d \in Conns :
        c # d /\ conn[c].pc = "update" /\ conn[d].pc = "sleep"

\* an offline condition is active: 'offline' is a key of active_errors
OfflineActive == IsRegistered(error_simulator.active_errors, "offline")

\* bytes held by the command log
RECURSIVE LogBytes(_)
LogBytes(log) ==
    IF log = <<>> THEN 0 ELSE Len(Head(log).raw_data) + LogBytes(Tail(log))

C9_TriggerReachesPrinterState ==
    [][\A c \in Conns :
          (conn[c].pc = "update" /\ conn'[c].pc = "sleep") =>
              /\ "offline" \in conn[c].activated => ~printer_state'.online
              /\ "paper_out" \in conn[c].activated =>
                     printer_state'.paper_status = "out"]_vars

\* number of 'activated' entries of a type in the error history
RECURSIVE Activations(_, _)
Activations(history, error_type) ==
    IF history = <<>> THEN 0
    ELSE (IF Head(history).error_type = error_type
             /\ Head(history).action = "activated" THEN 1 ELSE 0)
         + Activations(Tail(history), error_type)

\* C10: an after_commands condition with threshold N is activated by the Nth
\* call of process_command and by no earlier call, whatever the command types.
C10_AfterCommandsTrigger ==
    [][error_simulator'.command_count = error_simulator.command_count + 1 =>
         \A i \in 1..Len(error_simulator.active_errors) :
            LET condition == error_simulator.active_errors[i]
                fired ==
                    Activations(error_simulator'.error_history,
                                condition.error_type)
                    - Activations(error_simulator.error_history,
                                  condition.error_type)
            IN  condition.trigger_type = "after_commands" =>
                  /\ error_simulator'.command_count < condition.trigger_value
                        => fired = 0
                  /\ error_simulator'.command_count = condition.trigger_value
                        => fired = 1]_vars

\* the condition with threshold 2 was registered and fired on the second call
C10_Witness ==
    /\ ops = 3
    /\ error_simulator.command_count = 2
    /\ IsRegistered(error_simulator.active_errors, "offline")
    /\ Registered(error_simulator.active_errors, "offline").trigger_value = 2
    /\ Len(error_simulator.error_history) = 1
    /\ Activations(error_simulator.error_history, "offline") = 1

\* number of 'recovered' entries of a type in the error history
RECURSIVE Recoveries(_, _)
Recoveries(history, error_type) ==
    IF history = <<>> THEN 0
    ELSE (IF Head(history).error_type = error_type
             /\ Head(history).action = "recovered" THEN 1 ELSE 0)
         + Recoveries(Tail(history), error_type)

\* loop time of the latest activation of a type, NoTime when there is none
LastActivation(history, error_type) ==
    LET found == { i \in 1..Len(history) :
                     /\ history[i].error_type = error_type
                     /\ history[i].action = "activated" }
    IN  IF found = {} THEN NoTime
        ELSE history[CHOOSE i \in found : \A j \in found : j <= i].timestamp

\* a step that is a call of process_command
IsProcessCommand ==
    error_simulator'.command_count = error_simulator.command_count + 1

\* C11: a process_command call made once the duration of an activated auto
\* condition has elapsed since its activation removes the condition from
\* active_errors and records a 'recovered' history entry.
C11_AutoRecovery ==
    [][IsProcessCommand =>
         \A i \in 1..Len(error_simulator.active_errors) :
            LET condition == error_simulator.active_errors[i]
                since == LastActivation(error_simulator.error_history,
                                        condition.error_type)
            IN  (/\ condition.recovery_type = "auto"
                 /\ condition.duration > 0
                 /\ since # NoTime
                 /\ Now - since >= condition.duration) =>
                  /\ ~IsRegistered(error_simulator'.active_errors,
                                   condition.error_type)
                  /\ Recoveries(error_simulator'.error_history,
                                condition.error_type)
                       = Recoveries(error_simulator.error_history,
                                    condition.error_type) + 1]_vars

\* C12: a manual condition leaves active_errors only through
\* remove_error_condition, clear_all_errors or reset; after
\* remove_error_condition(t) the type t is not registered, removing a type
\* that is not registered changes nothing, and process_command activates no
\* type that is not registered.
C12_ManualNeverSelfClears ==
    /\ [][\A i \in 1..Len(error_simulator.active_errors) :
            LET condition == error_simulator.active_errors[i]
            IN  (/\ condition.recovery_type = "manual"
                 /\ ~IsRegistered(error_simulator'.active_errors,
                                  condition.error_type)) =>
                  \/ error_simulator' =
                        remove_error_condition(error_simulator,
                                               condition.error_type)
                  \/ error_simulator' = clear_all_errors(error_simulator)
                  \/ error_simulator' = simulator_reset(error_simulator, Now)
         ]_vars
    /\ [](\A t \in RecoveryTypes :
            LET removed == remove_error_condition(error_simulator, t)
            IN  /\ ~IsRegistered(removed.active_errors, t)
                /\ ~IsRegistered(error_simulator.active_errors, t) =>
                       removed = error_simulator)
    /\ [][IsProcessCommand =>
            \A t \in RecoveryTypes :
               ~IsRegistered(error_simulator.active_errors, t) =>
                   Activations(error_simulator'.error_history, t)
                     = Activations(error_simulator.error_history, t)]_vars

\* the manual condition is still registered after two process_command calls
\* that activated it, with another condition registered beside it
C12_Witness ==
    /\ IsRegistered(error_simulator.active_errors, "offline")
    /\ Registered(error_simulator.active_errors, "offline").recovery_type
          = "manual"
    /\ Len(error_simulator.active_errors) >= 2
    /\ error_simulator.command_count >= 2
    /\ Activations(error_simulator.error_history, "offline") >= 2

\* C13: on a process_command call (made without keyword arguments, as
\* _process_data makes it) every registered conditional condition whose
\* predicate returns true is removed and gets exactly one 'recovered' entry;
\* one whose predicate returns false stays registered.
C13_ConditionalRecovery ==
    [][\A command_type \in CommandTypes : \A draw \in Draws :
          (/\ IsProcessCommand
           /\ error_simulator' =
                  process_command(error_simulator, command_type, Now, draw,
                                  NoKwargs).sim) =>
             \A i \in 1..Len(error_simulator.active_errors) :
                LET condition == error_simulator.active_errors[i]
                    t == condition.error_type
                    recovered ==
                        Recoveries(error_simulator'.error_history, t)
                        - Recoveries(error_simulator.error_history, t)
                IN  (/\ condition.recovery_type = "conditional"
                     /\ condition.recovery_condition # "none") =>
                      IF recovery_condition_holds(
                             condition, NoKwargs.elapsed_since_error)
                      THEN /\ ~IsRegistered(error_simulator'.active_errors, t)
                           /\ recovered = 1
                      ELSE /\ IsRegistered(error_simulator'.active_errors, t)
                           /\ Registered(error_simulator'.active_errors, t)
                                 = condition
                           /\ recovered = 0]_vars

\* a conditional condition was activated and recovered by a call and is gone
C13_Witness ==
    /\ Recoveries(error_simulator.error_history, "paper_jam") = 1
    /\ Activations(error_simulator.error_history, "paper_jam") = 1
    /\ ~IsRegistered(error_simulator.active_errors, "paper_jam")
    /\ error_simulator.command_count = 1

\* C14: reset restores the defaults and nothing else: from every reachable
\* state, after simulate_error('reset') online is true, paper_status is
\* loaded and the buffer is empty, and command_log, print_history (and the
\* time of the last text) are what they were.
C14_ResetRestoresDefaults ==
    LET after == state_simulate_error(printer_state, "reset")
    IN  /\ after.online
        /\ after.paper_status = "loaded"
        /\ after.buffer = <<>>
        /\ after.command_log = printer_state.command_log
        /\ after.print_history = printer_state.print_history
        /\ after.last_text_time = printer_state.last_text_time

\* a reset emptied the buffer of a text that was never cut, and the text is
\* still in the log and in the history
C14_Witness ==
    /\ printer_state.buffer = <<>>
    /\ printer_state.command_log # <<>>
    /\ printer_state.command_log[Len(printer_state.command_log)].command_type
          = "text"
    /\ printer_state.print_history # <<>>
    /\ printer_state.online
    /\ printer_state.paper_status = "loaded"

\* text commands as the three paths pass them to update_state
FirstTexts ==
    { PlainText(<<65>>), ForcedText(<<65>>),
      Command("text", <<65>>,
              [kind |-> "sync", force_new |-> TRUE, mirrored |-> TRUE]) }

\* C15: clear_history empties buffer, command_log and print_history from
\* every reachable state and leaves online and paper_status as they were;
\* the first text command after it, whenever it comes, starts a new log entry
\* and a new PrintJob.
C15_ClearHistory ==
    LET after == clear_history(printer_state)
    IN  /\ after.buffer = <<>>
        /\ after.command_log = <<>>
        /\ after.print_history = <<>>
        /\ after.online = printer_state.online
        /\ after.paper_status = printer_state.paper_status
        /\ \A command \in FirstTexts :
             LET next == update_state(after, command, Now)
             IN  /\ LogContent(next) = <<<<"text", command.raw_data>>>>
                 /\ JobContent(next) = <<<<"text", command.raw_data>>>>

\* a text and a cut were cleared away and the next text stands alone
C15_Witness ==
    /\ flushed.texts >= 1
    /\ Len(printer_state.command_log) = 1
    /\ printer_state.command_log[1].command_type = "text"
    /\ Len(printer_state.print_history) = 1

\* C16: simulate_error changes only the field its type names (offline:
\* online; paper_out and paper_jam: paper_status; an unknown type: nothing),
\* never command_log or print_history; and a fault, once set, stays through
\* every later step until a reset: online comes back and paper_status comes
\* back to loaded only by simulate_error('reset'), and they change at all
\* only by simulate_error.
C16_SimulateErrorFrame ==
    /\ [](/\ state_simulate_error(printer_state, "offline")
               = [printer_state EXCEPT !.online = FALSE]
           /\ state_simulate_error(printer_state, "paper_out")
               = [printer_state EXCEPT !.paper_status = "out"]
           /\ state_simulate_error(printer_state, "paper_jam")
               = [printer_state EXCEPT !.paper_status = "jammed"]
           /\ state_simulate_error(printer_state, "cover_open")
               = printer_state)
    /\ [][(\/ printer_state'.online # printer_state.online
            \/ printer_state'.paper_status # printer_state.paper_status) =>
             \E t \in FaultTypes :
                /\ printer_state' = state_simulate_error(printer_state, t)
                /\ ((~printer_state.online /\ printer_state'.online)
                     \/ (printer_state.paper_status # "loaded"
                         /\ printer_state'.paper_status = "loaded"))
                    => t = "reset"]_vars

\* the printer is offline and out of paper, and commands have been logged
C16_Witness ==
    /\ ~printer_state.online
    /\ printer_state.paper_status = "out"
    /\ Len(printer_state.command_log) >= 2
    /\ printer_state.print_history # <<>>

----------------------------------------------------------------------------
\* C17: shutdown order.  Once stop has released the listener no connection
\* is parked in reader.read any more (every open connection was closed
\* first; only a command already in flight may still be completing), and
\* when stop has returned no connection is left in the client set or in its
\* read loop, so that no bytes received afterwards are processed.
C17_ShutdownOrder ==
    /\ ~server.listening => \A c \in Conns : conn[c].pc # "read"
    /\ server.stop = "returned" =>
          /\ clients = {}
          /\ \A c \in Conns : conn[c].pc \notin ReadLoop

----------------------------------------------------------------------------
\* the step in which the read of connection c ends the connection: no chunk
\* is consumed and the task leaves the read loop
Drops(c) ==
    /\ conn[c].pc = "read"
    /\ conn'[c].pc = "closed"
    /\ sends' = sends

\* C18: transport-fault containment.  When the read of a connection returns
\* EOF or raises, that connection alone ends: it leaves the client set and
\* nothing else does, every other connection keeps its place in its own
\* loop and the command it has in hand, and PrinterState is left as it was.
C18_FaultContainment ==
    [][\A c \in Conns :
         Drops(c) =>
           /\ clients' = clients \ {c}
           /\ \A d \in Conns \ {c} : conn'[d] = conn[d]
           /\ printer_state' = printer_state
           /\ running' = running]_vars

\* one connection has dropped while the other is still a client, in the
\* middle of the cycle of a command
C18_Witness ==
    \E c \in Conns, d \in Conns :
      /\ conn[c].pc = "closed"
      /\ d \in clients
      /\ conn[d].pc = "sleep"
      /\ printer_state.command_log # <<>>

----------------------------------------------------------------------------
\* the step in which the second observation of call k reaches update_state
\* within the coalescing window of the first
SecondObservation(k) ==
    /\ sync[k].pc \in {"mirror", "network"}
    /\ sync'[k].pc = "idle"
    /\ printer_state.last_text_time # NoTime
    /\ Now - printer_state.last_text_time < CoalesceWindow

\* C19: duplicate-observation guard.  When the mirrored and the network
\* observation of one print_text call reach update_state within the
\* coalescing window, in either order, the second one adds no entry and the
\* entry of the call holds the text once, so that every call leaves one
\* text entry.
C19_DuplicateGuard ==
    [][\A k \in Callers :
         SecondObservation(k) =>
           LET log == printer_state'.command_log
           IN  /\ Len(log) = Len(printer_state.command_log)
               /\ log[Len(log)].raw_data = sync[k].command.raw_data]_vars

----------------------------------------------------------------------------
\* update_state_sync calls that have returned
Returned == ops - Cardinality({k \in DOMAIN sync : sync[k].pc = "sleep"})

\* C20: text sent with the forced-new-block flag never merges.  Under any
\* interleaving of concurrent update_state_sync('text', ..) callers the n
\* calls that have returned have added exactly n text entries to
\* command_log and n text jobs to print_history, one per call with the
\* payload of that call, also when the payload is empty or None.
C20_ForcedTextNeverMerges ==
    LET log == printer_state.command_log
        jobs == printer_state.print_history
    IN  /\ Len(log) = Returned
        /\ Len(jobs) = Returned
        /\ \A i \in 1..Len(log) :
              /\ log[i].command_type = "text"
              /\ log[i].raw_data \in {or_empty(call[2]) : call \in SyncTextCalls}
              /\ i <= Len(jobs) =>
                    /\ jobs[i].content_type = "text"
                    /\ jobs[i].data = log[i].raw_data

\* a call is about to apply its text in the millisecond in which another
\* call, made while this one slept, added an entry with an empty payload
C20_Witness ==
    /\ \E k \in DOMAIN sync : sync[k].pc = "sleep" /\ sync[k].wake <= Now
    /\ printer_state.last_text_time = Now
    /\ Len(printer_state.command_log) = 2
    /\ printer_state.command_log[2].raw_data = <<>>

----------------------------------------------------------------------------
\* error types of trigger_error calls: types the menu registers and one that
\* is never registered
TriggerTypes == {"offline", "paper_out", "paper_jam", "cover_open"}

\* C21: from every reachable state trigger_error(type) appends exactly one
\* history entry, 'activated' for that type, and leaves active_errors and
\* command_count as they were, also when no condition of the type is
\* registered (the synthesized condition is discarded).
C21_TriggerErrorFrame ==
    \A t \in TriggerTypes :
       LET after == trigger_error(error_simulator, t)
           n == Len(error_simulator.error_history)
       IN  /\ Len(after.error_history) = n + 1
           /\ SubSeq(after.error_history, 1, n) = error_simulator.error_history
           /\ after.error_history[n + 1].error_type = t
           /\ after.error_history[n + 1].action = "activated"
           /\ after.active_errors = error_simulator.active_errors
           /\ after.command_count = error_simulator.command_count

\* trigger_error has acted on a type that is not registered, while another
\* condition is registered and commands were counted
C21_Witness ==
    LET history == error_simulator.error_history
    IN  /\ history # <<>>
        /\ history[Len(history)].action = "activated"
        /\ history[Len(history)].error_type = "paper_out"
        /\ Activations(history, "paper_out") = 1
        /\ ~IsRegistered(error_simulator.active_errors, "paper_out")
        /\ IsRegistered(error_simulator.active_errors, "offline")
        /\ error_simulator.command_count = 1
        /\ ops = 3

----------------------------------------------------------------------------
\* the simulator after k process_command('text') calls in a row
RECURSIVE ProcessTimes(_, _)
ProcessTimes(sim, k) ==
    IF k = 0 THEN sim
    ELSE process_command(ProcessTimes(sim, k - 1), "text", Now, 0, NoKwargs).sim

\* C22: from every reachable state reset leaves active_errors and
\* error_history empty and command_count 0, so that an after_commands
\* condition with threshold N added after the reset is not activated by the
\* first N - 1 process_command calls and is activated by the Nth.
C22_ResetIsInitial ==
    LET fresh == simulator_reset(error_simulator, Now)
    IN  /\ fresh.active_errors = <<>>
        /\ fresh.error_history = <<>>
        /\ fresh.command_count = 0
        /\ \A condition \in SimConditionMenu :
              condition.trigger_type = "after_commands" =>
                LET armed == add_error_condition(fresh, condition)
                    N == condition.trigger_value
                IN  /\ \A k \in 0..(N - 1) :
                          ProcessTimes(armed, k).error_history = <<>>
                    /\ Activations(ProcessTimes(armed, N).error_history,
                                   condition.error_type) = 1

\* commands were counted, the simulator was reset, a condition with
\* threshold 1 was added and the next process_command call activated it
C22_Witness ==
    /\ ops = 4
    /\ error_simulator.command_count = 1
    /\ Len(error_simulator.active_errors) = 1
    /\ error_simulator.active_errors[1].trigger_type = "after_commands"
    /\ error_simulator.active_errors[1].trigger_value = 1
    /\ Len(error_simulator.error_history) = 1
    /\ error_simulator.error_history[1].action = "activated"

----------------------------------------------------------------------------
\* C23: in a process_command call every registered condition that fires gets
\* one 'activated' history entry and no other condition gets one; the call
\* returns the type of the first condition that fired, in the order of
\* registration, and returns None exactly when no condition fired.
C23_MultipleActivations ==
    \A command_type \in CommandTypes : \A draw \in Draws :
       LET r == process_command(error_simulator, command_type, Now, draw,
                                NoKwargs)
           items == error_simulator.active_errors
           firing == { i \in 1..Len(items) :
                         should_trigger(items[i],
                                        error_simulator.command_count + 1,
                                        Now - error_simulator.start_time,
                                        draw) }
       IN  /\ \A i \in 1..Len(items) :
                 Activations(r.sim.error_history, items[i].error_type)
                   = Activations(error_simulator.error_history,
                                 items[i].error_type)
                     + (IF i \in firing THEN 1 ELSE 0)
           /\ Len(r.sim.error_history)
                >= Len(error_simulator.error_history) + Cardinality(firing)
           /\ (r.first_error = "None") <=> (firing = {})
           /\ firing # {} =>
                 r.first_error =
                     items[CHOOSE i \in firing : \A j \in firing : i <= j]
                         .error_type

\* two conditions were registered and the first process_command call
\* activated both
C23_Witness ==
    /\ ops = 3
    /\ error_simulator.command_count = 1
    /\ Len(error_simulator.active_errors) = 2
    /\ Len(error_simulator.error_history) = 2
    /\ \A i \in 1..2 :
          /\ error_simulator.error_history[i].action = "activated"
          /\ error_simulator.error_history[i].error_type
                = error_simulator.active_errors[i].error_type

----------------------------------------------------------------------------
\* C24: from every reachable state update_state with a qr, image or barcode
\* command appends that command to command_log and one PrintJob of the same
\* content type with the command's raw_data to print_history, and leaves
\* the pending buffer, online and paper_status unchanged.
C24_PrintableCommandsPrintAtOnce ==
    \A command \in PrintableCommands :
       LET after == update_state(printer_state, command, Now)
           job == after.print_history[Len(after.print_history)]
       IN  /\ after.command_log = Append(printer_state.command_log, command)
           /\ Len(after.print_history) = Len(printer_state.print_history) + 1
           /\ SubSeq(after.print_history, 1, Len(printer_state.print_history))
                 = printer_state.print_history
           /\ job.content_type = command.command_type
           /\ job.data = command.raw_data
           /\ after.buffer = printer_state.buffer
           /\ after.online = printer_state.online
           /\ after.paper_status = printer_state.paper_status

\* a barcode was printed while text was pending and the paper was out
C24_Witness ==
    LET log == printer_state.command_log
        jobs == printer_state.print_history
    IN  /\ log # <<>> /\ jobs # <<>>
        /\ log[Len(log)].command_type = "barcode"
        /\ jobs[Len(jobs)].content_type = "barcode"
        /\ jobs[Len(jobs)].data = log[Len(log)].raw_data
        /\ printer_state.buffer # <<>>
        /\ printer_state.paper_status = "out"

\* C25: from every reachable state update_state with a feed command or a
\* command of a type other than text, cut, qr, image and barcode appends
\* that command to command_log and leaves print_history, the pending
\* buffer, online and paper_status unchanged.
C25_UpdateStateIsTotal ==
    \A command \in LoggedCommands :
       LET after == update_state(printer_state, command, Now)
       IN  /\ after.command_log = Append(printer_state.command_log, command)
           /\ after.print_history = printer_state.print_history
           /\ after.buffer = printer_state.buffer
           /\ after.online = printer_state.online
           /\ after.paper_status = printer_state.paper_status

\* a command of an unknown type was logged while text was pending and the
\* printer was offline, and a feed before it
C25_Witness ==
    LET log == printer_state.command_log
    IN  /\ Len(log) = 3
        /\ log[2].command_type = "feed"
        /\ log[3].command_type = "unknown"
        /\ printer_state.buffer # <<>>
        /\ printer_state.print_history # <<>>
        /\ ~printer_state.online

----------------------------------------------------------------------------
\* the statuses a printer can show to get_status
PrinterStatuses ==
    { [NewPrinterState EXCEPT !.online = o, !.paper_status = p] :
        o \in BOOLEAN, p \in {"loaded", "out", "jammed"} }

\* a command dict of the type _send_response answers
StatusRequest ==
    [type |-> "status_request", raw_data |-> <<16, 4, 1>>,
     parameters |-> [kind |-> "none"]]

\* bit k of a byte
Bit(byte, k) == (byte \div (2 ^ k)) % 2 = 1

\* C26: for every command the parser decodes _send_response writes no byte,
\* whatever the status of the printer; for a status-query command it writes
\* one byte, with bit 3 set exactly when the printer is offline and bit 5
\* set exactly when paper_status is not loaded.
C26_FireAndForget ==
    \A ps \in PrinterStatuses :
       /\ \A i \in 1..Len(feed_results) :
             \A j \in 1..Len(feed_results[i].decoded) :
                send_response(feed_results[i].decoded[j], ps) = <<>>
       /\ LET response == send_response(StatusRequest, ps)
          IN  /\ Len(response) = 1
              /\ Bit(response[1], 3) <=> ~ps.online
              /\ Bit(response[1], 5) <=> ps.paper_status # "loaded"

\* the parser has emitted a barcode command with its payload
C26_Witness ==
    /\ feed_results # <<>>
    /\ ~Draining
    /\ \E i \in 1..Len(feed_results) :
          /\ feed_results[i].returned # <<>>
          /\ feed_results[i].returned[1].type = "barcode"
          /\ Len(feed_results[i].returned[1].raw_data) = 4 + MaxPayload

----------------------------------------------------------------------------
\* the parser connection c would have after the first n recorded calls if
\* it had a parser of its own: only the chunks c read are fed to it
RECURSIVE OwnParser(_, _)
OwnParser(c, n) ==
    IF n = 0 THEN NewParser
    ELSE IF feed_results[n].conn = c
    THEN parse_command(OwnParser(c, n - 1), feed_results[n].data).parser
    ELSE OwnParser(c, n - 1)

\* C27: streams of different connections do not mix.  What each
\* parse_command call of a connection returns, and so what is logged for
\* the bytes of that connection, is what a parser fed with the chunks of
\* that connection alone returns.
C27_StreamsDoNotMix ==
    \A n \in 1..Len(feed_results) :
       feed_results[n].returned
         = parse_command(OwnParser(feed_results[n].conn, n - 1),
                         feed_results[n].data).returned

----------------------------------------------------------------------------
\* bytes that are the beginning of a command of the grammar and not yet the
\* whole of it
IncompletePrefix(bytes) ==
    \E e \in Encodings :
       Len(bytes) < Len(e) /\ SubSeq(e, 1, Len(bytes)) = bytes

\* C28: after every parse_command call the parser buffer is empty or holds
\* only an incomplete prefix of one command: no complete command and no
\* text is left in it for a later call, also when the call met an
\* unrecognized ESC or GS selector.
C28_NoCompleteCommandLeft ==
    \A i \in 1..Len(feed_results) :
       \/ feed_results[i].buffer = <<>>
       \/ IncompletePrefix(feed_results[i].buffer)

----------------------------------------------------------------------------
\* C29: image framing.  Once the bytes GS ( L pL pH m d1..dn of an image
\* command with n = pL + 256*pH are buffered, in one call or two, the
\* decoder has emitted exactly that command: type image, the 6 + n bytes as
\* raw_data, the data length n, and nothing is left in the buffer; also for
\* n = 0.
C29_ImageFraming ==
    (/\ feed_todo = <<>>
     /\ feed_results # <<>>
     /\ ~Draining
     /\ JoinBytes(feed_done) \in ImageEncodings) =>
       LET stream == JoinBytes(feed_done)
           decoded == AllDecoded(feed_results)
       IN  /\ Len(decoded) = 1
           /\ decoded[1].type = "image"
           /\ decoded[1].raw_data = stream
           /\ decoded[1].parameters.data_length = stream[4] + 256 * stream[5]
           /\ feed_results[Len(feed_results)].buffer = <<>>

----------------------------------------------------------------------------
\* the cut encodings of the grammar: ESC i, ESC m, GS V 65, GS V 66
CutEncodings == { <<ESC, 105>>, <<ESC, 109>>, <<GS, 86, 65>>, <<GS, 86, 66>> }

\* the step hands a parsed cut encoding to the printer state while text is
\* pending
CutProcessed ==
    /\ printer_state.buffer # <<>>
    /\ Len(printer_state'.command_log) = Len(printer_state.command_log) + 1
    /\ \E e \in CutEncodings :
          printer_state'.command_log[Len(printer_state'.command_log)]
             = ParsedCommand(e)

\* C30: every cut encoding flushes.  When ESC i, ESC m or GS V m is
\* processed while the pending text buffer is non-empty, the buffer is empty
\* afterwards and its content has been emitted as one more text PrintJob.
C30_EveryCutFlushes ==
    [][CutProcessed =>
         LET jobs == printer_state'.print_history
         IN  /\ printer_state'.buffer = <<>>
             /\ Len(jobs) = Len(printer_state.print_history) + 1
             /\ jobs[Len(jobs)].content_type = "text"
             /\ jobs[Len(jobs)].data = JoinBytes(printer_state.buffer)]_vars

----------------------------------------------------------------------------
\* the command types of the specification's closed set
ClosedCommandTypes ==
    {"text", "initialize", "print_mode", "underline", "alignment", "feed",
     "codepage", "cut", "barcode", "image", "hri_position", "hri_font",
     "barcode_width", "barcode_height", "carriage_return"}

\* C31: every command the parser emits, whether parse_command returns it or
\* only decodes it, has a command type of the closed set.
C31_CommandTypesClosed ==
    \A i \in 1..Len(feed_results) :
       /\ \A k \in 1..Len(feed_results[i].decoded) :
             feed_results[i].decoded[k].type \in ClosedCommandTypes
       /\ \A k \in 1..Len(feed_results[i].returned) :
             feed_results[i].returned[k].type \in ClosedCommandTypes

----------------------------------------------------------------------------
\* the step decides the admission of connection c
Admission(c) == conn[c].pc = "new" /\ conn'[c].pc # "new"

\* C32: connection admission agrees with the reported status.  Whatever
\* add_error_condition, remove_error_condition, simulate_error,
\* process_command and reset calls came before, a new connection is refused
\* if and only if get_status reports online = false.
C32_AdmissionAgreesWithStatus ==
    [][\A c \in Conns :
          Admission(c) =>
             (conn'[c].pc = "rejected"
                <=> ~get_status(printer_state).online)]_vars

----------------------------------------------------------------------------
\* the entries of one error type, in history order
OfType(history, error_type) ==
    SelectSeq(history, LAMBDA entry : entry.error_type = error_type)

\* 'activated' and 'recovered' entries take turns, 'activated' first
Alternates(entries) ==
    \A i \in 1..Len(entries) :
       entries[i].action = IF i % 2 = 1 THEN "activated" ELSE "recovered"

\* C33: for each error type the history alternates, starting with
\* 'activated'.  A process_command call on a history that alternates leaves
\* one that alternates: a condition that has fired is not recorded again, and
\* a 'recovered' entry follows an 'activated' entry of its type.
C33_HistoryAlternates ==
    [][IsProcessCommand =>
         \A error_type \in RecoveryTypes :
            Alternates(OfType(error_simulator.error_history, error_type))
               => Alternates(OfType(error_simulator'.error_history,
                                    error_type))]_vars

----------------------------------------------------------------------------
\* task k is about to enter "async with lock"
AtAcquire(k) ==
    /\ sync[k].pc # "idle"
    /\ sync[k].at <= Len(LockProgram(sync[k].op))
    /\ LockProgram(sync[k].op)[sync[k].at].kind = "acquire"

\* C34: no operation on the shared state deadlocks.  A task that asks for a
\* lock holds none (so it neither waits for one lock while holding another
\* nor asks again for a lock it holds), a task that has given up the loop
\* holds none, and every operation a task has started returns.
C34_NoDeadlock ==
    /\ [](\A k \in Tasks :
             /\ AtAcquire(k) => sync[k].held = {}
             /\ sync[k].pc \in {"idle", "ready", "sleep", "wait"}
                   => sync[k].held = {})
    /\ \A k \in Tasks : (sync[k].pc # "idle") ~> (sync[k].pc = "idle")

\* one task sleeps inside update_state_sync while another, serving a
\* connection, holds PrinterState._lock inside update_state
C34_Witness ==
    /\ ops = MaxTaskCalls
    /\ \E k, j \in Tasks :
          /\ sync[k].op = "update_state_sync" /\ sync[k].pc = "sleep"
          /\ sync[j].op = "process_data" /\ sync[j].held = {StateLock}

----------------------------------------------------------------------------
\* an ESC or GS byte with a selector byte no rule knows
UnknownPairs == { <<ESC, 153>>, <<GS, 153>> }

\* what may follow the pair: nothing, the text "A", the cut GS V A, a
\* codepage select and a text
Followers == { <<>>, <<65>>, <<GS, 86, 65>>, <<ESC, 116, 1, 65>> }

\* C35: an ESC or GS byte followed by an unrecognized selector consumes
\* exactly those 2 bytes and emits no command; the selected codepage is
\* unchanged and the bytes after the pair stay in the buffer unaltered, to
\* be decoded as the commands they encode.  Stated for the streams fed to
\* the parser, and for every pair and follower on every parser reached with
\* an empty buffer.
C35_UnknownSelectorDropped ==
    /\ (feed_done # <<>> /\ feed_done[1] \in UnknownSelectorStreams) =>
          /\ feed_results[1].decoded = <<>>
          /\ feed_results[1].returned = <<>>
          /\ feed_results[1].buffer = DropBytes(feed_done[1], 2)
          /\ command_parser.current_encoding = NewParser.current_encoding
    /\ command_parser.buffer = <<>> =>
          \A pair \in UnknownPairs : \A rest \in Followers :
             LET r == parse_command(command_parser, pair \o rest)
             IN  /\ r.decoded = <<>>
                 /\ r.returned = <<>>
                 /\ r.parser = [command_parser EXCEPT !.buffer = rest]
                 /\ parse_command(r.parser, <<>>)
                       = parse_command(command_parser, rest)

\* ESC 0x99 "A" was fed: nothing came back and "A" is what the buffer holds
C35_Witness ==
    /\ feed_done = << <<ESC, 153, 65>> >>
    /\ feed_results[1].returned = <<>>
    /\ command_parser.buffer = <<65>>

----------------------------------------------------------------------------
\* the code page in force for the i-th decoded command: that of the latest
\* ESC t n decoded before it, the default when there is none
ActiveCodec(decoded, i) ==
    LET selects == { j \in 1..(i - 1) : decoded[j].type = "codepage" }
    IN  IF selects = {} THEN NewParser.current_encoding
        ELSE codepages(decoded[CHOOSE j \in selects :
                                  \A l \in selects : l <= j].raw_data[3])

\* a codepage select is emitted as the 3 bytes ESC t n
SelectsAreThreeBytes(decoded) ==
    \A i \in 1..Len(decoded) :
       decoded[i].type = "codepage" =>
          /\ Len(decoded[i].raw_data) = 3
          /\ SubSeq(decoded[i].raw_data, 1, 2) = <<ESC, 116>>

\* C36 as stated: every text is decoded with the code page in force.
C36_TextUsesSelectedCodec ==
    LET decoded == AllDecoded(feed_results)
    IN  /\ SelectsAreThreeBytes(decoded)
        /\ \A i \in 1..Len(decoded) :
              decoded[i].type = "text" =>
                 decoded[i].parameters.codec = ActiveCodec(decoded, i)

\* C36, amended: a text is decoded with the code page selected by the latest
\* ESC t n decoded before it (the default when there is none) when that
\* code page maps its bytes, and with latin-1 when it does not; a codepage
\* select is emitted as a 3-byte codepage command and the parser's code
\* page after the calls is the one in force.
C36_TextUsesSelectedCodecOrFallback ==
    LET decoded == AllDecoded(feed_results)
    IN  /\ SelectsAreThreeBytes(decoded)
        /\ command_parser.current_encoding
              = ActiveCodec(decoded, Len(decoded) + 1)
        /\ \A i \in 1..Len(decoded) :
              decoded[i].type = "text" =>
                 decoded[i].parameters.codec
                    = IF Undecodable(ActiveCodec(decoded, i),
                                     decoded[i].raw_data)
                      THEN "latin-1" ELSE ActiveCodec(decoded, i)

\* cp932 was selected, then cp1252, and the text 0x81 that cp1252 does not
\* map came out in latin-1
C36_Witness ==
    /\ feed_done = << <<ESC, 116, 1>>, <<ESC, 116, 16>>, <<129>> >>
    /\ Len(feed_results) >= 3
    /\ LET decoded == AllDecoded(feed_results)
       IN  /\ Len(decoded) = 3
           /\ decoded[3].type = "text"
           /\ decoded[3].parameters.codec = "latin-1"
           /\ command_parser.current_encoding = "cp1252"

----------------------------------------------------------------------------
\* task k serves a connection and waits in the delay after a command
InDelay(k) == sync[k].op = "process_data" /\ sync[k].pc = "sleep"

\* C37: the latency injected after a command does not block other
\* connections.  The task that waits in the delay holds no lock and not the
\* event loop, and no lock is held by a task that is not running, so another
\* task that gets the loop finds every lock free and its command is processed
\* in full (simulator step and state update) before the sleeper resumes.
C37_LatencyBlocksNoOne ==
    \A k \in Tasks :
       InDelay(k) =>
          /\ sync[k].held = {}
          /\ running # k
          /\ \A lock \in {StateLock, SimLock} :
                Locked_by(lock) \subseteq ({running} \ {k})
          /\ \A j \in Tasks : sync[j].pc # "wait"

\* while one connection waits in its delay, the command of another has gone
\* through process_command and update_state, and that one waits too
C37_Witness ==
    /\ \A k \in Tasks : k <= 2 => InDelay(k)
    /\ error_simulator.command_count = 2
    /\ Len(printer_state.command_log) + Len(printer_state.print_history) >= 2

----------------------------------------------------------------------------
\* the step ends connection c
Ends(c) == conn[c].pc # "closed" /\ conn'[c].pc = "closed"

\* C38: decode anomalies never escape the parser.  No parse_command call
\* raises, whatever the chunks and however they are split over the reads:
\* every text a connection takes in hand was decoded by a codec that maps
\* its bytes, a connection ends only when its read returns no chunk (never in
\* the step that parses a chunk or drains the buffer), and online and
\* paper_status stay as they were.
C38_AnomaliesStayInParser ==
    [][/\ \A c \in Conns :
             Ends(c) => /\ conn[c].pc = "read"
                        /\ sends' = sends
                        /\ command_parser' = command_parser
       /\ printer_state'.online = printer_state.online
       /\ printer_state'.paper_status = printer_state.paper_status
       /\ \A c \in Conns :
             (conn'[c].command # None /\ conn'[c].command.type = "text") =>
                ~Undecodable(conn'[c].command.parameters.codec,
                             conn'[c].command.raw_data)]_vars

\* after ESC t 1 selected cp932, the text 0x81 was decoded with latin-1 and
\* logged, and the connection that sent it is still served
C38_Witness ==
    /\ command_parser.current_encoding = "cp932"
    /\ \E i \in 1..Len(printer_state.command_log) :
          /\ printer_state.command_log[i].raw_data = <<129>>
          /\ printer_state.command_log[i].parameters.codec = "latin-1"
    /\ \E c \in Conns : c \in clients /\ conn[c].pc = "sleep"
    /\ printer_state.online

----------------------------------------------------------------------------
\* C39: the log and the history stay in step.  In every reachable state of
\* PrinterState, if the last command_log entry is a text command then the
\* last print_history entry is a text PrintJob whose data is that entry's
\* raw_data.
C39_LogAndHistoryInStep ==
    LET log == printer_state.command_log
        jobs == printer_state.print_history
    IN  (log # <<>> /\ log[Len(log)].command_type = "text") =>
           /\ jobs # <<>>
           /\ jobs[Len(jobs)].content_type = "text"
           /\ jobs[Len(jobs)].data = log[Len(log)].raw_data

\* three text commands came in: one was merged into the text before it and
\* a mirrored one was dropped as a duplicate, so the only log entry holds two
\* payloads and the only job holds the same bytes
C39_Witness ==
    LET log == printer_state.command_log
        jobs == printer_state.print_history
    IN  /\ ops = 3
        /\ printer_state.online /\ printer_state.paper_status = "loaded"
        /\ Len(log) = 1 /\ Len(jobs) = 1
        /\ log[1].command_type = "text"
        /\ log[1].raw_data = <<65, 65>>
        /\ jobs[1].data = <<65, 65>>

====
